---- MODULE Spec2Model ----
(***************************************************************************)
(* The DBLP fetch plugin (src/unnamed/part_000 with src/unnamed/part_004   *)
(* and src/constants.ts): a run reconciles a remote profile against a      *)
(* vault of notes.  A JavaScript string is modelled as the sequence of its *)
(* characters; a character is a one-element TLA+ string ("U+2044" names    *)
(* the single character with that code point).  The vault is a function    *)
(* from the paths of the existing notes to their contents.                 *)
(***************************************************************************)
EXTENDS Integers, Sequences, FiniteSets, TLC

VARIABLES
    files,          \* the vault: path |-> content, for every existing note
    folders,        \* the folders created through vault.createFolder
    siblings,       \* People children that are not <name>.md notes (their names)
    profile,        \* the parsed remote profile (dblpPerson) of the current run
    citable,        \* the keys whose .bib citation the mirrors serve
    pc,             \* position of the run inside fetch
    idx,            \* position of the running loop in its list
    run,            \* number of the current run
    existingPeople, \* populateAuthorNotes: the set built before its loop
    organizations,  \* getAffiliations: alias |-> canonical name
    affiliations,   \* getAffiliations: the resolved names, in input order
    indexes,        \* answers the two similarity indexes have given so far
    log,            \* console.log entries and notices, in order
    flight,         \* the vault writes issued and not yet settled: who, where
    background,     \* a run with writes in flight: the createPublicationMdFiles call
    mirror,         \* the loop over DBLP_BASE_URLS: next base, text so far, requests
    hist            \* snapshots taken for the properties

vars == <<files, folders, siblings, profile, citable, pc, idx, run,
          existingPeople, organizations, affiliations, indexes, log, flight,
          background, mirror, hist>>

-----------------------------------------------------------------------------
(* Bounds of the model *)

MaxPubs == 2        \* publication records per profile
MaxCoauthors == 2   \* coauthor records per profile
MaxAffils == 2      \* affiliation notes per profile
MaxRuns == 2        \* runs in a row
MaxTitle == 2       \* characters of a title handed to sanitize on its own
MaxParts == 3       \* comma-separated parts of an affiliation text sliced on its own
MaxUrls == 2        \* url elements of the person of a profile

-----------------------------------------------------------------------------
(* JavaScript string operations, on sequences of characters *)

\* the concatenation of a sequence of strings
RECURSIVE Cat(_)
Cat(ss) ==
    IF ss = <<>> THEN <<>>
    ELSE IF Len(ss) = 1 THEN ss[1]
    ELSE LET half == Len(ss) \div 2
         IN  Cat(SubSeq(ss, 1, half)) \o Cat(SubSeq(ss, half + 1, Len(ss)))

StartsWith(s, p) == Len(p) <= Len(s) /\ SubSeq(s, 1, Len(p)) = p

\* String.prototype.indexOf, 1-based; 0 when p does not occur
IndexOf(s, p) ==
    LET hits == {i \in 1..(Len(s) - Len(p) + 1) : SubSeq(s, i, i + Len(p) - 1) = p}
    IN  IF hits = {} THEN 0 ELSE CHOOSE i \in hits : \A j \in hits : i <= j

Includes(s, p) == p = <<>> \/ IndexOf(s, p) # 0

\* the k-th smallest element of a set of numbers
Nth(S, k) == CHOOSE i \in S : Cardinality({j \in S : j <= i}) = k

\* String.prototype.split with a separator no two matches of which overlap
Split(s, sep) ==
    LET hits == {i \in 1..(Len(s) - Len(sep) + 1) : SubSeq(s, i, i + Len(sep) - 1) = sep}
        n == Cardinality(hits)
    IN  [k \in 1..(n + 1) |->
            SubSeq(s, IF k = 1 THEN 1 ELSE Nth(hits, k - 1) + Len(sep),
                      IF k = n + 1 THEN Len(s) ELSE Nth(hits, k) - 1)]

\* Array.prototype.join
Join(parts, sep) ==
    Cat([k \in 1..(2 * Len(parts) - 1) |->
            IF k % 2 = 1 THEN parts[(k + 1) \div 2] ELSE sep])

WhiteSpace == {" ", "\n", "\t", "\r", "U+00A0"}

\* String.prototype.trim
Trim(s) ==
    LET inked == {i \in DOMAIN s : s[i] \notin WhiteSpace}
    IN  IF inked = {} THEN <<>>
        ELSE SubSeq(s, CHOOSE i \in inked : \A j \in inked : i <= j,
                       CHOOSE i \in inked : \A j \in inked : j <= i)

\* Array.prototype.toSpliced(at, 0, ...items), at counted from 0
ToSpliced(seq, at, items) ==
    LET k == IF at > Len(seq) THEN Len(seq) ELSE at
    IN  SubSeq(seq, 1, k) \o items \o SubSeq(seq, k + 1, Len(seq))

Range(seq) == {seq[i] : i \in DOMAIN seq}

-----------------------------------------------------------------------------
(* Constants of the plugin *)

NL == <<"\n">>
SENTINEL == <<"-", "-", "-">>
MD == <<".", "m", "d">>
SLASH == <<"/">>

PEOPLE_DIR == <<"P", "e", "o", "p", "l", "e">>
CONF_PAPER_DIR == <<"P", "a", "p", "e", "r", "s", "/", "C", "o", "n", "f", "e", "r", "e", "n", "c", "e">>
JOURNAL_PAPER_DIR == <<"P", "a", "p", "e", "r", "s", "/", "J", "o", "u", "r", "n", "a", "l">>
INFORMAL_PAPER_DIR == <<"P", "a", "p", "e", "r", "s", "/", "I", "n", "f", "o", "r", "m", "a", "l">>
ORG_DIR == <<"O", "r", "g", "a", "n", "i", "z", "a", "t", "i", "o", "n", "s">>
DBLP_BASE_URLS ==
    << <<"h", "t", "t", "p", "s", ":", "/", "/", "d", "b", "l", "p", ".", "o", "r", "g">>,
       <<"h", "t", "t", "p", "s", ":", "/", "/", "d", "b", "l", "p", ".", "u", "n", "i", "-", "t", "r", "i", "e", "r", ".", "d", "e">>,
       <<"h", "t", "t", "p", "s", ":", "/", "/", "d", "b", "l", "p", ".", "d", "a", "g", "s", "t", "u", "h", "l", ".", "d", "e">> >>
DBLP_PUB_ROUTE == <<"r", "e", "c">>
DBLP_MAIN_URL == <<"h", "t", "t", "p", "s", ":", "/", "/", "d", "b", "l", "p", ".", "o", "r", "g">>
DBLP_PID_ROUTE == <<"p", "i", "d">>
DBLP_PROPERTY == <<"d", "b", "l", "p">>
EXCEPTION_PREFIXES ==
    << <<"U", "n", "i", "v", "e", "r", "s", "i", "t", "y", " ", "o", "f", " ",
         "C", "a", "l", "i", "f", "o", "r", "n", "i", "a", ",">> >>

\* FORBIDDEN_CHAR_REPLACEMENT, in the order of its entries
FORBIDDEN_CHAR_REPLACEMENT ==
    << <<"/", "U+2044">>, <<"\\", "U+FF3C">>, <<":", "U+FE55">>, <<";", "U+037E">>,
       <<"^", "U+FF3E">>, <<"|", "U+2503">>, <<"#", "U+FF03">>, <<"?", "U+FE56">>,
       <<"~", "U+FF5E">>, <<"$", "U+FF04">>, <<"!", "U+FF01">>, <<"&", "U+FF06">>,
       <<"@", "U+FF20">>, <<"%", "U+FF05">>, <<"\"", "U+FF02">>, <<"'", "U+FF07">>,
       <<"<", "U+FF1C">>, <<">", "U+FF1E">>, <<"{", "U+FF5B">>, <<"}", "U+FF5D">>,
       <<"[", "U+FF3B">>, <<"]", "U+FF3D">>, <<"*", "U+FF0A">> >>

-----------------------------------------------------------------------------
(* Name/path sanitizer *)

\* obsidian's normalizePath: runs of slashes and backslashes become one slash,
\* leading and trailing slashes go, the empty path becomes "/", no-break spaces
\* become spaces, and the result is NFC-normalized (U+037E composes to ";")
Slashes == {"/", "\\"}

normalizePath(path) ==
    LET heads == {i \in DOMAIN path :
                    path[i] \notin Slashes \/ i = 1 \/ path[i - 1] \notin Slashes}
        one == [k \in 1..Cardinality(heads) |->
                  IF path[Nth(heads, k)] \in Slashes THEN "/" ELSE path[Nth(heads, k)]]
        from == IF one # <<>> /\ one[1] = "/" THEN 2 ELSE 1
        to == IF Len(one) > 1 /\ one[Len(one)] = "/" THEN Len(one) - 1 ELSE Len(one)
        cut == SubSeq(one, from, to)
        full == IF cut = <<>> THEN <<"/">> ELSE cut
    IN  [i \in DOMAIN full |->
            IF full[i] \in {"U+00A0", "U+202F"} THEN " "
            ELSE IF full[i] = "U+037E" THEN ";" ELSE full[i]]

\* the replaceAll calls of sanitize as they act on one character: the entry of
\* the character replaces it, and no later entry touches the replacement, none
\* of which is a key
ReplaceForbidden(c) ==
    LET hit == {k \in DOMAIN FORBIDDEN_CHAR_REPLACEMENT :
                  FORBIDDEN_CHAR_REPLACEMENT[k][1] = c}
    IN  IF hit = {} THEN c ELSE FORBIDDEN_CHAR_REPLACEMENT[CHOOSE k \in hit : TRUE][2]

sanitize(fileName) ==
    normalizePath([i \in DOMAIN fileName |-> ReplaceForbidden(fileName[i])])

-----------------------------------------------------------------------------
(* Structured-note field editor *)

hasProperties(lines) == Len(lines) > 0 /\ lines[1] = SENTINEL

\* exists(property, lines) walks lines[1], lines[2], ... (counted from 0) and
\* stops at the first line that is the sentinel (false) or starts with
\* "<property>:" (true); with neither it reads past the end and startsWith on
\* undefined throws a TypeError
ExistsStops(property, lines) ==
    {i \in 2..Len(lines) :
        lines[i] = SENTINEL \/ StartsWith(lines[i], property \o <<":">>)}

ExistsThrows(property, lines) == ExistsStops(property, lines) = {}

\* a variant of exists that reads on after the closing sentinel
existsAnywhere(property, lines) ==
    \E i \in 2..Len(lines) : StartsWith(lines[i], property \o <<":">>)

\* a variant of exists that never finds the property
existsNowhere(property, lines) == FALSE

exists(property, lines) ==
    LET stops == ExistsStops(property, lines)
        i == CHOOSE k \in stops : \A j \in stops : k <= j
    IN  lines[i] # SENTINEL

\* obsidian's getFrontMatterInfo: the block between a first line "---" and the
\* next line "---"
getFrontMatterInfo(content) ==
    LET lines == Split(content, NL)
    IN  IF hasProperties(lines) /\ \E i \in 2..Len(lines) : lines[i] = SENTINEL
        THEN LET close == CHOOSE i \in 2..Len(lines) :
                            lines[i] = SENTINEL /\ \A j \in 2..(i - 1) : lines[j] # SENTINEL
             IN  [exists |-> TRUE,
                  frontmatter |-> Cat([i \in 1..(close - 2) |-> lines[i + 1] \o NL])]
        ELSE [exists |-> FALSE, frontmatter |-> <<>>]

-----------------------------------------------------------------------------
(* The vault *)

\* DblpFetchPlugin.createFile: vault.create throws when the path is taken, and
\* createFile then returns false and leaves the vault as it was
created(fs, path) == path \notin DOMAIN fs

\* a variant of createFile that clears the vault first
createFileAlone(fs, path, content) == (path :> content)

\* a variant of createFile that overwrites an existing note
createFileOverwriting(fs, path, content) == (path :> content) @@ fs

createFile(fs, path, content) ==
    IF path \in DOMAIN fs THEN fs ELSE (path :> content) @@ fs

\* vault.createFolder inside try/catch: creates the folder unless it exists
createFolder(fds, path) == fds \cup {path}

-----------------------------------------------------------------------------
(* Publication reconciler *)

isInProceedings(pub) == pub.hasBooktitle /\ ~pub.hasPubltype
isJournalArticle(pub) == pub.hasJournal /\ ~pub.hasPubltype
isInformalArticle(pub) == pub.hasJournal /\ pub.hasPubltype

\* the filter at the head of createPublicationMdFiles
Queued(pubs) ==
    SelectSeq(pubs, LAMBDA pub :
        isInProceedings(pub) \/ isJournalArticle(pub) \/ isInformalArticle(pub))

UpperCase == {"A", "B", "C", "D", "E", "F", "G", "H", "I", "J", "K", "L", "M",
              "N", "O", "P", "Q", "R", "S", "T", "U", "V", "W", "X", "Y", "Z"}

\* a variant that keeps the venue string as it is
AcronymVerbatim(booktitle) == booktitle

\* booktitle.replaceAll(/[^A-Z]/g, '')
Acronym(booktitle) == SelectSeq(booktitle, LAMBDA c : c \in UpperCase)

\* the text the mirrors serve at <base>/rec/<key>.bib
Citation(key) == <<"@">> \o key \o NL

\* the note content composed for a record
PubContent(pub, citation) ==
    LET key == Trim(pub.key)
        authors == [i \in DOMAIN pub.author |->
                      <<"a", "u", "t", "h", "o", "r", ":", ":", " ", "[", "[">>
                      \o pub.author[i] \o <<"]", "]">>]
    IN  SENTINEL \o NL \o <<"k", "e", "y", ":", " ">> \o key \o NL \o SENTINEL \o NL
        \o <<"U+0060", "U+0060", "U+0060", "b", "i", "b", "t", "e", "x", "\n">> \o citation
        \o <<"U+0060", "U+0060", "U+0060", "\n">> \o Join(authors, NL)

\* the folders a record's branch creates, in order; the last one is its path
PubFolders(pub) ==
    IF isInProceedings(pub)
    THEN LET venue == CONF_PAPER_DIR \o SLASH \o Acronym(pub.booktitle)
         IN  <<venue, venue \o SLASH \o pub.year>>
    ELSE IF isJournalArticle(pub)
    THEN LET journal == JOURNAL_PAPER_DIR \o SLASH \o pub.journal
         IN  <<journal, journal \o SLASH \o pub.year>>
    ELSE IF isInformalArticle(pub)
    THEN <<INFORMAL_PAPER_DIR \o SLASH \o pub.year>>
    ELSE <<>>

PubPath(pub) ==
    LET fds == PubFolders(pub) IN IF fds = <<>> THEN <<>> ELSE fds[Len(fds)]

PlainPath(pub) == PubPath(pub) \o SLASH \o sanitize(pub.title) \o MD

\* a variant of AltTitle that leaves the key out
AltTitleWithoutKey(title, key) == sanitize(title)

AltTitle(title, key) == sanitize(title \o <<"(">> \o key \o <<")">>)

AltPath(pub) ==
    PubPath(pub) \o SLASH \o AltTitle(sanitize(pub.title), Trim(pub.key)) \o MD

\* frontMatterInfo.frontmatter.split(': ')
FrontmatterParts(fileContents) ==
    Split(getFrontMatterInfo(fileContents).frontmatter, <<":", " ">>)

\* element [1] of the split is undefined when the block has no ": ", and
\* undefined.trim() throws a TypeError
FileKeyThrows(fileContents) == Len(FrontmatterParts(fileContents)) < 2

\* a variant of FileKey that does not trim
FileKeyUntrimmed(fileContents) == FrontmatterParts(fileContents)[2]

FileKey(fileContents) == Trim(FrontmatterParts(fileContents)[2])

\* a variant that writes over a note of another key at the plain path
ReconcilePublicationOver(fs, pub, fetched) ==
    IF ~fetched
    THEN [files |-> fs, log |-> <<[what |-> "unfetchable", key |-> pub.key]>>,
          threw |-> FALSE]
    ELSE IF ~created(fs, PlainPath(pub)) /\ FileKeyThrows(fs[PlainPath(pub)])
    THEN [files |-> fs, log |-> <<>>, threw |-> TRUE]
    ELSE IF ~created(fs, PlainPath(pub)) /\ Trim(pub.key) = FileKey(fs[PlainPath(pub)])
    THEN [files |-> fs, log |-> <<>>, threw |-> FALSE]
    ELSE [files |-> (PlainPath(pub) :> PubContent(pub, Citation(pub.key))) @@ fs,
          log |-> <<>>, threw |-> FALSE]

\* a variant that does not read the key of the note at the plain path
ReconcilePublicationUnread(fs, pub, fetched) ==
    LET content == PubContent(pub, Citation(pub.key))
    IN  IF ~fetched
        THEN [files |-> fs, log |-> <<[what |-> "unfetchable", key |-> pub.key]>>,
              threw |-> FALSE]
        ELSE IF created(fs, PlainPath(pub))
        THEN [files |-> createFile(fs, PlainPath(pub), content), log |-> <<>>,
              threw |-> FALSE]
        ELSE [files |-> createFile(fs, AltPath(pub), content),
              log |-> IF created(fs, AltPath(pub)) THEN <<>>
                      ELSE <<[what |-> "failedBoth", key |-> pub.key]>>,
              threw |-> FALSE]

\* a variant that leaves a note without citation when the citation is missing
ReconcilePublicationPartial(fs, pub, fetched) ==
    LET key == Trim(pub.key)
        content == PubContent(pub, IF fetched THEN Citation(pub.key) ELSE <<>>)
        filePath == PlainPath(pub)
        altPath == AltPath(pub)
    IN  IF created(fs, filePath)
        THEN [files |-> createFile(fs, filePath, content),
              log |-> IF fetched THEN <<>>
                      ELSE <<[what |-> "unfetchable", key |-> pub.key]>>,
              threw |-> FALSE]
        ELSE IF FileKeyThrows(fs[filePath])
        THEN [files |-> fs, log |-> <<>>, threw |-> TRUE]
        ELSE IF key # FileKey(fs[filePath])
        THEN [files |-> createFile(fs, altPath, content),
              log |-> IF created(fs, altPath) THEN <<>>
                      ELSE <<[what |-> "failedBoth", key |-> pub.key]>>,
              threw |-> FALSE]
        ELSE [files |-> fs, log |-> <<>>, threw |-> FALSE]

\* one iteration of the loop of createPublicationMdFiles over the vault fs:
\* the vault it leaves, what it logs, and whether it throws
ReconcilePublication(fs, pub, fetched) ==
    LET key == Trim(pub.key)
        content == PubContent(pub, Citation(pub.key))
        filePath == PlainPath(pub)
        altPath == AltPath(pub)
    IN  IF ~fetched
        THEN [files |-> fs, log |-> <<[what |-> "unfetchable", key |-> pub.key]>>,
              threw |-> FALSE]
        ELSE IF created(fs, filePath)
        THEN [files |-> createFile(fs, filePath, content), log |-> <<>>, threw |-> FALSE]
        ELSE IF FileKeyThrows(fs[filePath])
        THEN [files |-> fs, log |-> <<>>, threw |-> TRUE]
        ELSE IF key # FileKey(fs[filePath])
        THEN [files |-> createFile(fs, altPath, content),
              log |-> IF created(fs, altPath) THEN <<>>
                      ELSE <<[what |-> "failedBoth", key |-> pub.key]>>,
              threw |-> FALSE]
        ELSE [files |-> fs, log |-> <<>>, threw |-> FALSE]

\* a variant of PubFoldersAfter that creates the folder of the note only
PubFolderAfter(fds, pub, fetched) ==
    LET path == PubFolders(pub)
    IN  IF ~fetched \/ path = <<>> THEN fds ELSE createFolder(fds, path[Len(path)])

\* the folders exist before the note is created, whether or not it is
PubFoldersAfter(fds, pub, fetched) ==
    LET path == PubFolders(pub)
    IN  IF ~fetched \/ path = <<>> THEN fds
        ELSE IF Len(path) = 1 THEN createFolder(fds, path[1])
        ELSE createFolder(createFolder(fds, path[1]), path[2])

-----------------------------------------------------------------------------
(* Coauthor reconciler *)

profileUrl(pid) == DBLP_MAIN_URL \o SLASH \o DBLP_PID_ROUTE \o SLASH \o pid

PersonPath(name) == PEOPLE_DIR \o SLASH \o name \o MD

DblpLine(pid) == DBLP_PROPERTY \o <<":", " ">> \o profileUrl(pid)

NewPersonContent(pid) == SENTINEL \o NL \o DblpLine(pid) \o NL \o SENTINEL \o NL

\* the children of a folder that are notes of the vault, by file name
ChildNames(fs, dir) ==
    {SubSeq(p, Len(dir) + 2, Len(p)) :
        p \in {q \in DOMAIN fs :
                 /\ StartsWith(q, dir \o SLASH)
                 /\ ~Includes(SubSeq(q, Len(dir) + 2, Len(q)), SLASH)}}

\* the set populateAuthorNotes builds from file.name of the children of People
ExistingPeople(fs, sibs) == ChildNames(fs, PEOPLE_DIR) \cup sibs

\* [...content]: a string spread into an array gives one element per character
Spread(content) == [i \in DOMAIN content |-> <<content[i]>>]

\* the callback handed to vault.process for an existing person note
ProcessPersonThrows(content) ==
    LET newContent == Split(content, NL)
    IN  hasProperties(newContent) /\ ExistsThrows(DBLP_PROPERTY, newContent)

ProcessPerson(content, pid) ==
    LET newContent == Split(content, NL)
    IN  IF hasProperties(newContent)
        THEN IF ~exists(DBLP_PROPERTY, newContent)
             THEN Join(ToSpliced(newContent, 1, <<DblpLine(pid)>>), NL)
             ELSE Join(newContent, NL)
        ELSE Join(<<SENTINEL, DblpLine(pid), SENTINEL>> \o Spread(content), NL)

\* one iteration of the loop of populateAuthorNotes
ReconcileCoauthor(fs, people, coauthor) ==
    LET filePath == PersonPath(coauthor.name)
    IN  IF coauthor.name \in people
        THEN IF filePath \in DOMAIN fs
             THEN IF ProcessPersonThrows(fs[filePath])
                  THEN [files |-> fs, threw |-> TRUE]
                  ELSE [files |-> [fs EXCEPT ![filePath] = ProcessPerson(@, coauthor.pid)],
                        threw |-> FALSE]
             ELSE [files |-> fs, threw |-> FALSE]
        ELSE [files |-> createFile(fs, filePath, NewPersonContent(coauthor.pid)),
              threw |-> FALSE]

-----------------------------------------------------------------------------
(* Organization matcher *)

\* a variant that knows no exception prefix
sliceAtAnyFirstComma(text) ==
    LET index == IndexOf(text, <<",">>)
    IN  IF index > 0 THEN SubSeq(text, 1, index - 1) ELSE text

sliceAtFirstComma(text) ==
    LET hit == {k \in DOMAIN EXCEPTION_PREFIXES : StartsWith(text, EXCEPTION_PREFIXES[k])}
    IN  IF hit # {}
        THEN LET prefix == EXCEPTION_PREFIXES[CHOOSE k \in hit : \A j \in hit : k <= j]
                 suffix == SubSeq(text, Len(prefix) + 1, Len(text))
                 index == IndexOf(suffix, <<",">>)
             IN  IF index > 0 THEN SubSeq(text, 1, Len(prefix) + index - 1) ELSE text
        ELSE LET index == IndexOf(text, <<",">>)
             IN  IF index > 0 THEN SubSeq(text, 1, index - 1) ELSE text

\* the filter and map over person.note
DblpAffiliations(notes) ==
    LET kept == SelectSeq(notes, LAMBDA note :
                    note.hasAttrs /\ note.type = "affiliation" /\ note.label = <<>>)
    IN  [i \in DOMAIN kept |-> sliceAtFirstComma(kept[i].text)]

\* TFile.basename: the file name without its extension
Basename(name) ==
    LET dots == {i \in DOMAIN name : name[i] = "."}
    IN  IF dots = {} THEN name
        ELSE SubSeq(name, 1, (CHOOSE i \in dots : \A j \in dots : j <= i) - 1)

OrgPath(org) == ORG_DIR \o SLASH \o org \o MD

\* the aliases an organization note declares: the lines of its metadata block
\* that start with "-" once trimmed, without the dash
Aliases(fileContents) ==
    LET info == getFrontMatterInfo(fileContents)
        lines == IF info.exists THEN Split(info.frontmatter, NL) ELSE <<>>
        trimmed == [i \in DOMAIN lines |-> Trim(lines[i])]
        dashed == SelectSeq(trimmed, LAMBDA line : StartsWith(line, <<"-">>))
    IN  [i \in DOMAIN dashed |-> Trim(Tail(dashed[i]))]

\* the children of Organizations, in the order the vault lists them
RECURSIVE SeqOf(_)
SeqOf(S) == IF S = {} THEN <<>> ELSE LET x == CHOOSE y \in S : TRUE IN <<x>> \o SeqOf(S \ {x})

OrgFiles(fs) == SeqOf(ChildNames(fs, ORG_DIR))

\* a variant of MapOf in which the first pair of a key wins
MapOfFirst(pairs) ==
    [key \in {pairs[i][1] : i \in DOMAIN pairs} |->
        pairs[CHOOSE i \in DOMAIN pairs :
                /\ pairs[i][1] = key
                /\ \A j \in DOMAIN pairs : pairs[j][1] = key => i <= j][2]]

\* Map.set over a sequence of [key, value] pairs: the last pair of a key wins
MapOf(pairs) ==
    [key \in {pairs[i][1] : i \in DOMAIN pairs} |->
        pairs[CHOOSE i \in DOMAIN pairs :
                /\ pairs[i][1] = key
                /\ \A j \in DOMAIN pairs : pairs[j][1] = key => j <= i][2]]

\* the catalog getAffiliations builds: every basename to itself, then every
\* alias to the basename of the note that declares it
Organizations(fs) ==
    LET orgFiles == OrgFiles(fs)
        own == [i \in DOMAIN orgFiles |-> <<Basename(orgFiles[i]), Basename(orgFiles[i])>>]
        declared == [i \in DOMAIN orgFiles |->
                       LET aliases == Aliases(fs[ORG_DIR \o SLASH \o orgFiles[i]])
                       IN  [k \in DOMAIN aliases |-> <<aliases[k], Basename(orgFiles[i])>>]]
    IN  MapOf(own \o Cat(declared))

FUZZY_MIN == 75     \* bestFuzzyScore >= 0.75, in hundredths
FUSE_MAX == 33      \* score <= 0.33, in hundredths

\* what an index can answer for a query over the catalog's keys: nothing, or a
\* best candidate with its score; a key equal to the query is an exact match
\* for both (similarity 1, distance 0)
FuzzyAnswers(org, keys) ==
    IF org \in keys THEN {[found |-> TRUE, score |-> 100, item |-> org]}
    ELSE {[found |-> FALSE, score |-> 0, item |-> <<>>]}
         \cup [found : {TRUE}, score : {FUZZY_MIN - 1, FUZZY_MIN}, item : keys]

FuseAnswers(org, keys) ==
    IF org \in keys THEN {[found |-> TRUE, score |-> 0, item |-> org]}
    ELSE {[found |-> FALSE, score |-> 0, item |-> <<>>]}
         \cup [found : {TRUE}, score : {FUSE_MAX, FUSE_MAX + 1}, item : keys]

\* a variant of Accepts that does not ask the two indexes to agree
AcceptsWithoutAgreement(fuzzy, fuse) ==
    /\ fuzzy.found /\ fuse.found
    /\ fuzzy.score >= FUZZY_MIN
    /\ fuse.score <= FUSE_MAX

\* a variant of Accepts whose bounds are exclusive
AcceptsInside(fuzzy, fuse) ==
    /\ fuzzy.found /\ fuse.found
    /\ fuzzy.item = fuse.item
    /\ fuzzy.score > FUZZY_MIN
    /\ fuse.score < FUSE_MAX

\* the decision rule of getAffiliations
Accepts(fuzzy, fuse) ==
    /\ fuzzy.found /\ fuse.found
    /\ fuzzy.item = fuse.item
    /\ fuzzy.score >= FUZZY_MIN
    /\ fuse.score <= FUSE_MAX

\* a variant of Resolve that answers with the key the indexes matched
ResolveToKey(orgs, org, fuzzy, fuse) ==
    IF Accepts(fuzzy, fuse) THEN fuse.item ELSE org

\* organizations.get(item) || affil
Resolve(orgs, org, fuzzy, fuse) ==
    IF Accepts(fuzzy, fuse)
    THEN IF fuse.item \in DOMAIN orgs /\ orgs[fuse.item] # <<>> THEN orgs[fuse.item] ELSE org
    ELSE org

\* a variant of Register that creates a second note, under a name with a
\* suffix, when the first is there
RegisterAnew(fs, org, fuzzy, fuse) ==
    IF Accepts(fuzzy, fuse) THEN fs
    ELSE IF OrgPath(org) \in DOMAIN fs
    THEN createFile(fs, OrgPath(org \o <<" ", "1">>), <<>>)
    ELSE createFile(fs, OrgPath(org), <<>>)

\* a variant of Register that leaves the note of a new name to the user
RegisterNothing(fs, org, fuzzy, fuse) == fs

\* one iteration of the loop of getAffiliations over the vault
Register(fs, org, fuzzy, fuse) ==
    IF Accepts(fuzzy, fuse) THEN fs ELSE createFile(fs, OrgPath(org), <<>>)

-----------------------------------------------------------------------------
(* Profile sync orchestrator *)

\* a variant of LastWith in which the first url of a domain stays
FirstWith(urls, domain) ==
    LET hits == {i \in DOMAIN urls :
                   Includes(urls[i], domain)}
    IN  IF hits = {} THEN <<>> ELSE urls[CHOOSE i \in hits : \A j \in hits : i <= j]

\* processURL over person.url, then the non-empty entries as "<key>: <url>"
LastWith(urls, domain) ==
    LET hits == {i \in DOMAIN urls :
                   Includes(urls[i], domain)}
    IN  IF hits = {} THEN <<>> ELSE urls[CHOOSE i \in hits : \A j \in hits : j <= i]

ORCID == <<"o", "r", "c", "i", "d">>
WIKIPEDIA == <<"w", "i", "k", "i", "p", "e", "d", "i", "a">>
MGP == <<"m", "g", "p">>
ORCID_ORG == ORCID \o <<".", "o", "r", "g">>
WIKIPEDIA_ORG == WIKIPEDIA \o <<".", "o", "r", "g">>
MGP_ORG == <<"m", "a", "t", "h", "g", "e", "n", "e", "a", "l", "o", "g", "y", ".", "o", "r", "g">>

getLinks(urls) ==
    LET orcid == LastWith(urls, ORCID_ORG)
        wikipedia == LastWith(SelectSeq(urls, LAMBDA u : ~Includes(u, ORCID_ORG)),
                              WIKIPEDIA_ORG)
        mgp == LastWith(SelectSeq(urls, LAMBDA u :
                            ~Includes(u, ORCID_ORG) /\ ~Includes(u, WIKIPEDIA_ORG)),
                        MGP_ORG)
        entries == << <<ORCID, orcid>>, <<WIKIPEDIA, wikipedia>>, <<MGP, mgp>> >>
        kept == SelectSeq(entries, LAMBDA e : e[2] # <<>>)
    IN  [i \in DOMAIN kept |-> kept[i][1] \o <<":", " ">> \o kept[i][2]]

\* replaceAll(/\n(\n)+/g, '\n\n'): a run of two or more newlines becomes two
CollapseNewlines(s) ==
    LET kept == {i \in DOMAIN s :
                   ~(i > 2 /\ s[i] = "\n" /\ s[i - 1] = "\n" /\ s[i - 2] = "\n")}
    IN  [k \in 1..Cardinality(kept) |-> s[Nth(kept, k)]]

LAST_FETCH == <<"L", "a", "s", "t", " ", "D", "B", "L", "P", " ", "f", "e", "t", "c", "h", ":">>
AFFILIATION == <<"a", "f", "f", "i", "l", "i", "a", "t", "i", "o", "n", ":", ":">>

AffiliationLine(affil) == AFFILIATION \o <<" ", "[", "[">> \o affil \o <<"]", "]">>

\* a variant of MergeSubject that keeps the affiliation lines it finds
MergeSubjectAppending(data, allLinks, affils, dateTime) ==
    LET links == SelectSeq(allLinks, LAMBDA link : ~Includes(data, link))
        spliced == ToSpliced(Split(data, NL), 1, links)
        kept == SelectSeq(spliced, LAMBDA line : ~StartsWith(line, LAST_FETCH))
        newData == Join(kept \o [i \in DOMAIN affils |-> AffiliationLine(affils[i])], NL)
    IN  CollapseNewlines(newData \o NL \o NL \o LAST_FETCH \o <<" ">> \o dateTime)

\* the callback handed to vault.process for the subject note
MergeSubject(data, allLinks, affils, dateTime) ==
    LET links == SelectSeq(allLinks, LAMBDA link : ~Includes(data, link))
        spliced == ToSpliced(Split(data, NL), 1, links)
        kept == SelectSeq(spliced, LAMBDA line :
                    ~StartsWith(line, LAST_FETCH) /\ ~StartsWith(line, AFFILIATION))
        newData == Join(kept \o [i \in DOMAIN affils |-> AffiliationLine(affils[i])], NL)
    IN  CollapseNewlines(newData \o NL \o NL \o LAST_FETCH \o <<" ">> \o dateTime)

-----------------------------------------------------------------------------
(* The inputs of the model: records of the remote profile and notes the vault
   holds before the first run *)

Conf(title, key) ==
    [title |-> title, year |-> <<"2", "1">>, key |-> key, author |-> << <<"X">> >>,
     hasBooktitle |-> TRUE, booktitle |-> <<"I", "n", "t", " ", "C", "F">>,
     hasJournal |-> FALSE, journal |-> <<>>, hasPubltype |-> FALSE]

Journal(title, key, informal) ==
    [title |-> title, year |-> <<"2", "1">>, key |-> key,
     author |-> << <<"X">>, <<"Y">> >>,
     hasBooktitle |-> FALSE, booktitle |-> <<>>,
     hasJournal |-> TRUE, journal |-> <<"J">>, hasPubltype |-> informal]

\* PubA and PubB are two conference papers of one venue and year whose titles
\* sanitize identically; PubC is a journal article, PubD an informal one
PubA == Conf(<<"A", "/", "B">>, <<"c", "/", "1">>)
PubB == Conf(<<"A", "U+2044", "B">>, <<"c", "/", "2">>)
PubC == Journal(<<"A", "/", "B">>, <<"j", "/", "3">>, FALSE)
PubD == Journal(<<"C">>, <<"i", "/", "4">>, TRUE)
\* PubE is an inproceedings element that carries a publtype attribute
PubE == [Conf(<<"E">>, <<"c", "/", "5">>) EXCEPT !.hasPubltype = TRUE]
PubRecords == {PubA, PubB, PubC, PubD, PubE}

\* a paper of another profile with the title of PubA, in the same venue and year
Foreign == Conf(<<"A", "/", "B">>, <<"c", "/", "9">>)

\* sequences without repetition of at most n elements of S
RECURSIVE SeqsUpTo(_, _)
SeqsUpTo(S, n) ==
    IF n = 0 THEN {<<>>}
    ELSE LET shorter == SeqsUpTo(S, n - 1)
         IN  shorter \cup {q \o <<x>> : q \in shorter, x \in S}

Distinct(q) == \A i, j \in DOMAIN q : i # j => q[i] # q[j]

NoRepeat(S, n) == {q \in SeqsUpTo(S, n) : Distinct(q)}

\* a note the user has edited: the block records the key of pub and a further field
Edited(pub) ==
    SENTINEL \o NL \o <<"k", "e", "y", ":", " ">> \o pub.key \o NL
    \o <<"t", "a", "g", "s", ":", " ", "x">> \o NL \o SENTINEL \o NL

\* a note without a metadata block
Bare == <<"h", "i", "\n", "y", "o", "u">>

\* the publication notes the vault may hold before the first run
PubStores ==
    { <<>>,
      PlainPath(PubA) :> PubContent(Foreign, Citation(Foreign.key)),
      PlainPath(PubA) :> Edited(PubA),
      PlainPath(PubA) :> Bare,
      (PlainPath(PubA) :> PubContent(Foreign, Citation(Foreign.key)))
        @@ (AltPath(PubA) :> Bare) }

\* the coauthors a profile may list: Co1 and Co3 share a display name
Co1 == [name |-> <<"J", "o">>, pid |-> <<"p", "/", "1">>]
Co2 == [name |-> <<"A", "l">>, pid |-> <<"p", "/", "2">>]
Co3 == [name |-> <<"J", "o">>, pid |-> <<"p", "/", "3">>]
CoRecords == {Co1, Co2, Co3}

\* the notes People/Jo.md may be before the first run: an empty block, a block
\* with another field and a body, a block that holds the field already, a note
\* without a block, and a block that is never closed
EmptyBlock == SENTINEL \o NL \o SENTINEL \o NL

TaggedNote ==
    SENTINEL \o NL \o <<"t", "a", "g", "s", ":", " ", "x">> \o NL \o SENTINEL \o NL
    \o <<"b", "o", "d", "y">>

LinkedNote ==
    SENTINEL \o NL \o <<"d", "b", "l", "p", ":", " ", "o", "t", "h", "e", "r">> \o NL
    \o SENTINEL \o NL

Unclosed == SENTINEL \o NL \o <<"t", "i", "t", "l", "e", ":", " ", "x">>

\* besides: an empty block over a body line that reads like the field
PersonNotes ==
    {EmptyBlock, TaggedNote, LinkedNote, Bare, Unclosed,
     EmptyBlock \o <<"d", "b", "l", "p", ":", " ", "o", "t", "h", "e", "r">>}

PeopleStores == {<<>>} \cup {PersonPath(Co1.name) :> note : note \in PersonNotes}

\* the children of People that are not notes: none, or a folder named Jo
SiblingSets == {{}, {Co1.name}}

\* the notes of the person element: three affiliations, and a labelled one;
\* the names of coauthors and affiliations are names a file of the vault can
\* have (no path separator)
Affil(text, label) ==
    [hasAttrs |-> TRUE, type |-> "affiliation", label |-> label, text |-> text]

NoteMIT == Affil(<<"M", "I", "T", ",", " ", "C", "S", "A", "I", "L">>, <<>>)
NoteExample == Affil(<<"E", "x", "a", "m", "p", "l", "e", " ", "U">>, <<>>)
NoteAlias == Affil(<<"M", ".", "I", ".", "T", ".">>, <<>>)
NoteFormer == Affil(<<"O", "l", "d", " ", "U">>, <<"f", "o", "r", "m", "e", "r">>)
NoteRecords == {NoteMIT, NoteExample, NoteAlias, NoteFormer}

\* the organization notes the vault may hold before the first run
MIT == <<"M", "I", "T">>

WithAlias ==
    SENTINEL \o NL \o <<"a", "l", "i", "a", "s", "e", "s", ":">> \o NL
    \o <<" ", " ", "-", " ", "M", ".", "I", ".", "T", ".">> \o NL \o SENTINEL \o NL

\* besides: two notes that declare one alias, and the same two with a note
\* that has the alias for its name
OrgStores ==
    {<<>>, OrgPath(MIT) :> <<>>, OrgPath(MIT) :> WithAlias,
     (OrgPath(MIT) :> WithAlias) @@ (OrgPath(<<"M", "T">>) :> WithAlias),
     (OrgPath(MIT) :> WithAlias) @@ (OrgPath(<<"M", "T">>) :> WithAlias)
       @@ (OrgPath(<<"M", ".", "I", ".", "T", ".">>) :> <<>>)}

\* the note of the person whose profile is fetched
SUBJECT == PersonPath(<<"M", "e">>)

\* a note of the user with two empty lines in a row between two lines
Spaced == EmptyBlock \o <<"a", "\n", "\n", "\n", "b", "\n">>

SubjectNotes == {EmptyBlock, EmptyBlock \o <<"b", "o", "d", "y">>, Bare, Spaced}

OrcidUrl ==
    <<"h", "t", "t", "p", "s", ":", "/", "/", "o", "r", "c", "i", "d", ".", "o", "r", "g",
      "/", "1">>

\* new Date(Date.now()) as a string: no two runs see the same one
RECURSIVE DateString(_)
DateString(n) == IF n = 0 THEN <<"t">> ELSE DateString(n - 1) \o <<"'">>

EmptyProfile == [pubs |-> <<>>, coauthors |-> <<>>, notes |-> <<>>, urls |-> <<>>]

\* the profile of the end-to-end scenario: one conference paper, one coauthor,
\* one affiliation
FooPaper ==
    [Conf(<<"F", "o", "o", ":", " ", "B", "a", "r">>,
          <<"c", "o", "n", "f", "/", "f", "o", "o", "/", "X", "2", "1">>)
     EXCEPT !.year = <<"2", "0", "2", "1">>,
            !.booktitle = <<"I", "n", "t", "'", "l", " ", "C", "o", "n", "f", ".", " ",
                            "o", "n", " ", "F", "o", "o">>,
            !.author = << <<"J", "a", "n", "e", " ", "D", "o", "e">> >>]

JaneDoe ==
    [name |-> <<"J", "a", "n", "e", " ", "D", "o", "e">>,
     pid |-> <<"d", "/", "D", "o", "e", "J">>]

ExampleUniversity ==
    <<"E", "x", "a", "m", "p", "l", "e", " ", "U", "n", "i", "v", "e", "r", "s", "i", "t", "y">>

NoteDept ==
    Affil(ExampleUniversity \o <<",", " ", "D", "e", "p", "t", ".", " ", "o", "f", " ", "C", "S">>,
          <<>>)

Scenario ==
    [pubs |-> <<FooPaper>>, coauthors |-> <<JaneDoe>>, notes |-> <<NoteDept>>,
     urls |-> <<>>]

-----------------------------------------------------------------------------
(* The run *)

Entry(at, fs, sibs, prof) ==
    [pc |-> IF at = "fetch" THEN "idle" ELSE at,
     existingPeople |-> IF at = "coauthors" THEN ExistingPeople(fs, sibs) ELSE {},
     organizations |-> IF at = "affils" /\ prof.notes # <<>>
                       THEN Organizations(fs) ELSE <<>>]

NoStep == [kind |-> "none"]

\* before the first request of a run
NoRequest == [at |-> 1, text |-> FALSE, asked |-> <<>>]

\* the publication loop of createPublicationMdFiles, one record per step
createPublicationMdFiles ==
    /\ pc = "pubs"
    /\ idx <= Len(Queued(profile.pubs))
    /\ LET pub == Queued(profile.pubs)[idx]
           fetched == pub.key \in citable
           out == ReconcilePublication(files, pub, fetched)
       IN  /\ files' = out.files
           /\ folders' = PubFoldersAfter(folders, pub, fetched)
           /\ log' = log \o out.log
           /\ pc' = IF out.threw THEN "threw" ELSE pc
           /\ idx' = IF out.threw THEN idx ELSE idx + 1
           /\ hist' = [hist EXCEPT !.step = [kind |-> "pub", pub |-> pub, before |-> files]]
    /\ UNCHANGED <<mirror, flight, background, siblings, profile, citable, run, existingPeople, organizations,
                   affiliations, indexes>>

\* the coauthor loop of populateAuthorNotes, one coauthor per step
populateAuthorNotes ==
    /\ pc = "coauthors"
    /\ idx <= Len(profile.coauthors)
    /\ LET coauthor == profile.coauthors[idx]
           out == ReconcileCoauthor(files, existingPeople, coauthor)
       IN  /\ files' = out.files
           /\ pc' = IF out.threw THEN "threw" ELSE pc
           /\ idx' = IF out.threw THEN idx ELSE idx + 1
           /\ hist' = [hist EXCEPT !.step = [kind |-> "co", coauthor |-> coauthor,
                                             before |-> files]]
    /\ UNCHANGED <<mirror, flight, background, folders, siblings, profile, citable, run, existingPeople, organizations,
                   affiliations, indexes, log>>

\* the affiliation loop of getAffiliations, one affiliation per step; an index
\* gives one answer to one query over one list of keys
getAffiliations ==
    /\ pc = "affils"
    /\ idx <= Len(DblpAffiliations(profile.notes))
    /\ LET org == DblpAffiliations(profile.notes)[idx]
           keys == DOMAIN organizations
           query == <<org, keys>>
       IN  \E fuzzy \in FuzzyAnswers(org, keys), fuse \in FuseAnswers(org, keys) :
              /\ query \in DOMAIN indexes =>
                    indexes[query] = [fuzzy |-> fuzzy, fuse |-> fuse]
              /\ indexes' = (query :> [fuzzy |-> fuzzy, fuse |-> fuse]) @@ indexes
              /\ files' = Register(files, org, fuzzy, fuse)
              /\ affiliations' = Append(affiliations,
                                        Resolve(organizations, org, fuzzy, fuse))
              /\ hist' = [hist EXCEPT !.step = [kind |-> "affil", org |-> org,
                                                fuzzy |-> fuzzy, fuse |-> fuse,
                                                before |-> files]]
    /\ idx' = idx + 1
    /\ UNCHANGED <<mirror, flight, background, folders, siblings, profile, citable, pc, run, existingPeople,
                   organizations, log>>

\* a variant of fetch that goes on without a response
fetchUnchecked ==
    /\ pc = "idle"
    /\ \E response \in BOOLEAN :
          hist' = [hist EXCEPT !.step = [kind |-> "fetch", response |-> response]]
    /\ pc' = "pubs"
    /\ idx' = 1
    /\ UNCHANGED <<mirror, flight, background, files, folders, siblings, profile, citable, run, existingPeople,
                   organizations, affiliations, indexes, log>>

\* fetch, up to the parsed profile: some mirror answers, or none does
fetch ==
    /\ pc = "idle"
    /\ \E response \in BOOLEAN :
          /\ pc' = IF response THEN "pubs" ELSE "aborted"
          /\ log' = IF response THEN log
                    ELSE Append(log, [what |-> "noResponse", key |-> <<>>])
          /\ hist' = [hist EXCEPT !.step = [kind |-> "fetch", response |-> response]]
    /\ idx' = 1
    /\ UNCHANGED <<mirror, flight, background, files, folders, siblings, profile, citable, run, existingPeople,
                   organizations, affiliations, indexes>>

\* fetch, from the end of populatePublicationNotes to the loop of populateAuthorNotes
PublicationsDone ==
    /\ pc = "pubs"
    /\ hist.entry = "fetch"
    /\ idx > Len(Queued(profile.pubs))
    /\ pc' = "coauthors"
    /\ idx' = 1
    /\ existingPeople' = ExistingPeople(files, siblings)
    /\ UNCHANGED <<mirror, flight, background, files, folders, siblings, profile, citable, run, organizations,
                   affiliations, indexes, log, hist>>

\* fetch, from the end of populateAuthorNotes to the loop of getAffiliations
CoauthorsDone ==
    /\ pc = "coauthors"
    /\ hist.entry = "fetch"
    /\ idx > Len(profile.coauthors)
    /\ pc' = "affils"
    /\ idx' = 1
    /\ organizations' = Entry("affils", files, siblings, profile).organizations
    /\ affiliations' = <<>>
    /\ UNCHANGED <<mirror, flight, background, files, folders, siblings, profile, citable, run, existingPeople,
                   indexes, log, hist>>

\* fetch, from the end of getAffiliations: the merge into the subject note
MergePersonFile ==
    /\ pc = "affils"
    /\ hist.entry = "fetch"
    /\ idx > Len(DblpAffiliations(profile.notes))
    /\ files' = [files EXCEPT ![SUBJECT] =
                    MergeSubject(@, getLinks(profile.urls), affiliations, DateString(run))]
    /\ pc' = "done"
    /\ hist' = [hist EXCEPT !.step = [kind |-> "merge", before |-> files]]
    /\ UNCHANGED <<mirror, flight, background, folders, siblings, profile, citable, idx, run, existingPeople,
                   organizations, affiliations, indexes, log>>

\* the list the running loop walks
Work ==
    IF pc = "pubs" THEN Queued(profile.pubs)
    ELSE IF pc = "coauthors" THEN profile.coauthors
    ELSE IF pc = "affils" THEN DblpAffiliations(profile.notes)
    ELSE <<>>

\* a reconciler called on its own returns when its loop is through
Return ==
    /\ pc \in {"pubs", "coauthors", "affils"}
    /\ hist.entry = pc
    /\ idx > Len(Work)
    /\ pc' = "done"
    /\ UNCHANGED <<mirror, flight, background, files, folders, siblings, profile, citable, idx, run, existingPeople,
                   organizations, affiliations, indexes, log, hist>>

\* the profiles the next run may see: the same one, or (for the publication
\* reconciler) the same one with one new record somewhere in the list, or
\* with its records in the opposite order, or (for the whole fetch) the same
\* one with another address in every url element
Insert(q, k, x) == SubSeq(q, 1, k) \o <<x>> \o SubSeq(q, k + 1, Len(q))

NextProfiles ==
    {[new |-> <<>>, moved |-> FALSE, profile |-> profile]}
    \cup (IF hist.entry = "pubs" /\ Len(profile.pubs) <= MaxPubs
          THEN {[new |-> <<x>>, moved |-> FALSE,
                 profile |-> [profile EXCEPT !.pubs = Insert(@, k, x)]] :
                   x \in PubRecords \ Range(profile.pubs), k \in 0..Len(profile.pubs)}
          ELSE {})
    \cup (IF hist.entry = "pubs" /\ Len(profile.pubs) > 1
          THEN {[new |-> <<>>, moved |-> TRUE,
                 profile |-> [profile EXCEPT !.pubs =
                                 [k \in DOMAIN @ |-> @[Len(@) + 1 - k]]]]}
          ELSE {})
    \cup (IF hist.entry = "fetch" /\ profile.urls # <<>> /\ ~hist.moved
          THEN {[new |-> <<>>, moved |-> TRUE,
                 profile |-> [profile EXCEPT !.urls =
                                 [k \in DOMAIN @ |-> @[k] \o <<"0">>]]]}
          ELSE {})

\* the next run starts when the last one has ended
Again ==
    /\ pc \in {"done", "threw", "aborted"}
    /\ run < MaxRuns
    /\ \E next \in NextProfiles :
         LET e == Entry(hist.entry, files, siblings, next.profile)
         IN  /\ profile' = next.profile
             /\ pc' = e.pc
             /\ existingPeople' = e.existingPeople
             /\ organizations' = e.organizations
             /\ hist' = [hist EXCEPT !.start = files, !.prev = hist.start,
                                     !.prevEnd = files, !.prevPc = pc,
                                     !.new = next.new, !.moved = next.moved,
                                     !.step = NoStep]
    /\ run' = run + 1
    /\ idx' = 1
    /\ affiliations' = <<>>
    /\ log' = <<>>
    /\ UNCHANGED <<mirror, flight, background, files, folders, siblings, citable, indexes>>

Hist0(at, fs) ==
    [entry |-> at, start |-> fs, prev |-> fs, prevEnd |-> fs, prevPc |-> "none",
     new |-> <<>>, moved |-> FALSE, step |-> NoStep]

\* the publication reconciler on its own
InitPub ==
    /\ files \in PubStores
    /\ folders = {}
    /\ siblings = {}
    /\ \E pubs \in NoRepeat(PubRecords, MaxPubs) : profile = [EmptyProfile EXCEPT !.pubs = pubs]
    /\ citable \in {{r.key : r \in PubRecords}, {r.key : r \in PubRecords \ {PubB}}}
    /\ pc = "pubs"
    /\ idx = 1
    /\ run = 1
    /\ existingPeople = {}
    /\ organizations = <<>>
    /\ affiliations = <<>>
    /\ indexes = <<>>
    /\ log = <<>>
    /\ flight = {}
    /\ mirror = NoRequest
    /\ background = [state |-> "none", at |-> 0]
    /\ hist = Hist0("pubs", files)

NextPub == createPublicationMdFiles \/ Return \/ Again

SpecPub == InitPub /\ [][NextPub]_vars

\* the coauthor reconciler on its own
InitCo ==
    /\ files \in PeopleStores
    /\ folders = {}
    /\ siblings \in SiblingSets
    /\ \E cos \in NoRepeat(CoRecords, MaxCoauthors) :
          profile = [EmptyProfile EXCEPT !.coauthors = cos]
    /\ citable = {}
    /\ pc = "coauthors"
    /\ idx = 1
    /\ run = 1
    /\ existingPeople = ExistingPeople(files, siblings)
    /\ organizations = <<>>
    /\ affiliations = <<>>
    /\ indexes = <<>>
    /\ log = <<>>
    /\ flight = {}
    /\ mirror = NoRequest
    /\ background = [state |-> "none", at |-> 0]
    /\ hist = Hist0("coauthors", files)

NextCo == populateAuthorNotes \/ Return \/ Again

SpecCo == InitCo /\ [][NextCo]_vars

\* the organization matcher on its own
InitOrg ==
    /\ files \in OrgStores
    /\ folders = {}
    /\ siblings = {}
    /\ \E notes \in SeqsUpTo(NoteRecords, MaxAffils) :
          profile = [EmptyProfile EXCEPT !.notes = notes]
    /\ citable = {}
    /\ pc = "affils"
    /\ idx = 1
    /\ run = 1
    /\ existingPeople = {}
    /\ organizations = Entry("affils", files, siblings, profile).organizations
    /\ affiliations = <<>>
    /\ indexes = <<>>
    /\ log = <<>>
    /\ flight = {}
    /\ mirror = NoRequest
    /\ background = [state |-> "none", at |-> 0]
    /\ hist = Hist0("affils", files)

NextOrg == getAffiliations \/ Return \/ Again

SpecOrg == InitOrg /\ [][NextOrg]_vars

\* sanitize on its own: the reconciler names the note of one conference paper
\* whose title is any string of at most MaxTitle characters, drawn from the
\* keys of FORBIDDEN_CHAR_REPLACEMENT, a letter, the spaces normalizePath
\* rewrites and two of the replacement characters
TitleChars ==
    {FORBIDDEN_CHAR_REPLACEMENT[k][1] : k \in DOMAIN FORBIDDEN_CHAR_REPLACEMENT}
    \cup {"a", " ", "U+00A0", "U+037E", "U+2044"}

Titles == UNION {[1..n -> TitleChars] : n \in 0..MaxTitle}

InitSan ==
    /\ files = <<>>
    /\ folders = {}
    /\ siblings = {}
    /\ \E title \in Titles :
          profile = [EmptyProfile EXCEPT !.pubs = <<Conf(title, <<"c", "/", "1">>)>>]
    /\ citable = {<<"c", "/", "1">>}
    /\ pc = "pubs"
    /\ idx = 1
    /\ run = 1
    /\ existingPeople = {}
    /\ organizations = <<>>
    /\ affiliations = <<>>
    /\ indexes = <<>>
    /\ log = <<>>
    /\ flight = {}
    /\ mirror = NoRequest
    /\ background = [state |-> "none", at |-> 0]
    /\ hist = Hist0("pubs", files)

NextSan == createPublicationMdFiles \/ Return

SpecSan == InitSan /\ [][NextSan]_vars

\* sliceAtFirstComma on its own: the matcher resolves one affiliation note on
\* an empty vault; its text is made of at most MaxParts parts joined by commas
Segments ==
    {<<>>,
     <<"M", "I", "T">>,
     <<" ", "C", "S", "A", "I", "L">>,
     <<"U", "n", "i", "v", "e", "r", "s", "i", "t", "y", " ", "o", "f", " ",
       "C", "a", "l", "i", "f", "o", "r", "n", "i", "a">>,
     <<" ", "B", "e", "r", "k", "e", "l", "e", "y">>,
     <<" ", "C", "o", "m", "p", "u", "t", "e", "r", " ", "S", "c", "i", "e", "n", "c", "e">>}

RECURSIVE CommaTexts(_)
CommaTexts(n) ==
    IF n = 1 THEN Segments
    ELSE LET shorter == CommaTexts(n - 1)
         IN  shorter \cup {t \o <<",">> \o part : t \in shorter, part \in Segments}

InitSlice ==
    /\ files = <<>>
    /\ folders = {}
    /\ siblings = {}
    /\ \E text \in CommaTexts(MaxParts) :
          profile = [EmptyProfile EXCEPT !.notes = <<Affil(text, <<>>)>>]
    /\ citable = {}
    /\ pc = "affils"
    /\ idx = 1
    /\ run = 1
    /\ existingPeople = {}
    /\ organizations = Entry("affils", files, siblings, profile).organizations
    /\ affiliations = <<>>
    /\ indexes = <<>>
    /\ log = <<>>
    /\ flight = {}
    /\ mirror = NoRequest
    /\ background = [state |-> "none", at |-> 0]
    /\ hist = Hist0("affils", files)

NextSlice == getAffiliations \/ Return

SpecSlice == InitSlice /\ [][NextSlice]_vars

\* fetch: the whole run over the note of the subject
Profiles ==
    {EmptyProfile,
     [pubs |-> <<PubA>>, coauthors |-> <<Co1>>, notes |-> <<NoteMIT>>,
      urls |-> <<OrcidUrl>>],
     [pubs |-> <<PubA, PubB>>, coauthors |-> <<Co1, Co2>>,
      notes |-> <<NoteExample, NoteAlias>>, urls |-> <<>>],
     Scenario}

Vaults ==
    {(SUBJECT :> subject) @@ others :
        subject \in SubjectNotes,
        others \in {<<>>, (PersonPath(Co1.name) :> EmptyBlock) @@ (OrgPath(MIT) :> WithAlias)}}

\* the citation server answers for every record, or for every record but the
\* first of several
CitableSets(prof) ==
    LET all == {r.key : r \in PubRecords \cup Range(prof.pubs)}
    IN  {all} \cup IF Len(prof.pubs) > 1 THEN {all \ {prof.pubs[1].key}} ELSE {}

Init ==
    /\ files \in Vaults
    /\ folders = {}
    /\ siblings = {}
    /\ profile \in Profiles
    /\ citable \in CitableSets(profile)
    /\ pc = "idle"
    /\ idx = 1
    /\ run = 1
    /\ existingPeople = {}
    /\ organizations = <<>>
    /\ affiliations = <<>>
    /\ indexes = <<>>
    /\ log = <<>>
    /\ flight = {}
    /\ mirror = NoRequest
    /\ background = [state |-> "none", at |-> 0]
    /\ hist = Hist0("fetch", files)

Next ==
    \/ fetch
    \/ createPublicationMdFiles
    \/ PublicationsDone
    \/ populateAuthorNotes
    \/ CoauthorsDone
    \/ getAffiliations
    \/ MergePersonFile
    \/ Again

Spec == Init /\ [][Next]_vars

-----------------------------------------------------------------------------
(* The run with its writes in flight: a write is issued in one step and
   settled in a later one. fetch of part_000 awaits createPublicationMdFiles
   before it goes on; populatePublicationNotes of main.ts starts it and
   returns, so that its loop runs beside the rest of fetch. Both are runs
   whose profile request was answered. A write in flight is a record of the
   task that issued it, the iteration of its loop, the path and the call. *)

\* the folders, the plain path and the alternate path of a record; main.ts
\* takes every record with a booktitle for a conference paper, does not
\* filter, and sanitizes the whole alternate path, separators included
PathsIn(awaited, pub) ==
    LET fds == IF awaited THEN PubFolders(pub)
               ELSE IF pub.hasBooktitle
               THEN LET venue == CONF_PAPER_DIR \o SLASH \o Acronym(pub.booktitle)
                    IN  <<venue, venue \o SLASH \o pub.year>>
               ELSE IF isJournalArticle(pub)
               THEN LET journal == JOURNAL_PAPER_DIR \o SLASH \o pub.journal
                    IN  <<journal, journal \o SLASH \o pub.year>>
               ELSE IF isInformalArticle(pub)
               THEN <<INFORMAL_PAPER_DIR \o SLASH \o pub.year>>
               ELSE <<>>
        path == IF fds = <<>> THEN <<>> ELSE fds[Len(fds)]
        altTitle == AltTitle(sanitize(pub.title), Trim(pub.key))
    IN  [folders |-> Range(fds),
         plain |-> path \o SLASH \o sanitize(pub.title) \o MD,
         alt |-> IF awaited THEN path \o SLASH \o altTitle \o MD
                 ELSE sanitize(path \o SLASH \o altTitle \o MD)]

\* fetch up to the first await inside createPublicationMdFiles; when nobody
\* awaits the call, fetch goes straight on to populateAuthorNotes
startPublications ==
    /\ pc = "idle"
    /\ background.state = "none"
    /\ background' = [background EXCEPT !.state = "running", !.at = 1]
    /\ idx' = 1
    /\ IF background.awaited
       THEN /\ pc' = "pubs"
            /\ UNCHANGED <<log, existingPeople>>
       ELSE /\ pc' = "coauthors"
            /\ log' = Append(log, [what |-> "donePublications", key |-> <<>>])
            /\ existingPeople' = ExistingPeople(files, siblings)
    /\ hist' = [hist EXCEPT !.step = [kind |-> "start"]]
    /\ UNCHANGED <<mirror, files, folders, siblings, profile, citable, run, organizations,
                   affiliations, indexes, flight>>

\* a variant of createPublicationMdFilesTask that issues the creates of all
\* records without awaiting any
createPublicationMdFilesAtOnce ==
    LET queue == IF background.awaited THEN Queued(profile.pubs) ELSE profile.pubs
    IN  /\ background.state = "running"
        /\ {w \in flight : w.by = "pubs"} = {}
        /\ background.at <= Len(queue)
        /\ flight' = flight \cup
                       {[by |-> "pubs", job |-> k,
                         path |-> PathsIn(background.awaited, queue[k]).plain,
                         stage |-> "plain"] : k \in background.at..Len(queue)}
        /\ hist' = [hist EXCEPT !.step = [kind |-> "issue", by |-> "pubs"]]
        /\ UNCHANGED <<mirror, files, folders, siblings, profile, citable, pc, idx, run,
                       existingPeople, organizations, affiliations, indexes, log,
                       background>>

\* createPublicationMdFiles, from await to await. First disjunct: an iteration
\* up to vault.create on the plain path (the citation request, the folders,
\* the create issued). Second: the create in flight settles; on the plain path
\* the iteration ends, throws, or issues the create on the alternate path; on
\* the alternate path it ends. Third: the awaited call returns, fetch shows
\* its notice and enters populateAuthorNotes.
createPublicationMdFilesTask ==
    LET queue == IF background.awaited THEN Queued(profile.pubs) ELSE profile.pubs
        mine == {w \in flight : w.by = "pubs"}
    IN  \/ /\ background.state = "running"
           /\ mine = {}
           /\ background.at <= Len(queue)
           /\ LET pub == queue[background.at]
                  paths == PathsIn(background.awaited, pub)
              IN  IF pub.key \in citable
                  THEN /\ folders' = folders \cup paths.folders
                       /\ flight' = flight \cup
                                      {[by |-> "pubs", job |-> background.at,
                                        path |-> paths.plain, stage |-> "plain"]}
                       /\ UNCHANGED <<background, log>>
                  ELSE /\ IF background.awaited
                          THEN /\ log' = Append(log, [what |-> "unfetchable",
                                                      key |-> pub.key])
                               /\ background' = [background EXCEPT !.at = @ + 1]
                          ELSE /\ background' = [background EXCEPT !.state = "rejected"]
                               /\ log' = log
                       /\ UNCHANGED <<folders, flight>>
           /\ hist' = [hist EXCEPT !.step = [kind |-> "issue", by |-> "pubs"]]
           /\ UNCHANGED <<mirror, files, siblings, profile, citable, pc, idx, run, existingPeople,
                          organizations, affiliations, indexes>>
        \/ /\ \E w \in mine :
                LET pub == queue[background.at]
                    content == PubContent(pub, Citation(pub.key))
                    rest == flight \ {w}
                    next == [background EXCEPT !.at = @ + 1]
                IN  /\ hist' = [hist EXCEPT !.step = [kind |-> "settle", by |-> "pubs",
                                                      path |-> w.path, before |-> files]]
                    /\ IF w.stage = "plain"
                       THEN IF created(files, w.path)
                            THEN /\ files' = createFile(files, w.path, content)
                                 /\ flight' = rest
                                 /\ background' = next
                                 /\ UNCHANGED <<log, pc>>
                            ELSE IF FileKeyThrows(files[w.path])
                            THEN /\ flight' = rest
                                 /\ background' = [background EXCEPT !.state = "rejected"]
                                 /\ pc' = IF background.awaited THEN "threw" ELSE pc
                                 /\ UNCHANGED <<files, log>>
                            ELSE IF Trim(pub.key) # FileKey(files[w.path])
                            THEN /\ flight' = rest \cup
                                       {[by |-> "pubs", job |-> background.at,
                                         path |-> PathsIn(background.awaited, pub).alt,
                                         stage |-> "alt"]}
                                 /\ UNCHANGED <<files, background, log, pc>>
                            ELSE /\ flight' = rest
                                 /\ background' = next
                                 /\ UNCHANGED <<files, log, pc>>
                       ELSE /\ files' = createFile(files, w.path, content)
                            /\ log' = IF created(files, w.path) THEN log
                                      ELSE Append(log, [what |-> "failedBoth",
                                                        key |-> pub.key])
                            /\ flight' = rest
                            /\ background' = next
                            /\ pc' = pc
           /\ UNCHANGED <<mirror, folders, siblings, profile, citable, idx, run, existingPeople,
                          organizations, affiliations, indexes>>
        \/ /\ pc = "pubs"
           /\ background.state = "running"
           /\ background.at > Len(queue)
           /\ background' = [background EXCEPT !.state = "returned"]
           /\ pc' = "coauthors"
           /\ idx' = 1
           /\ log' = Append(log, [what |-> "donePublications", key |-> <<>>])
           /\ existingPeople' = ExistingPeople(files, siblings)
           /\ hist' = [hist EXCEPT !.step = [kind |-> "return", by |-> "pubs"]]
           /\ UNCHANGED <<mirror, files, folders, siblings, profile, citable, run, organizations,
                          affiliations, indexes, flight>>

\* populateAuthorNotes, from await to await. First disjunct: an iteration that
\* calls vault.process or vault.create issues it. Second: the write settles,
\* or the iteration has none. Third: the loop is through and fetch goes on to
\* the loop of getAffiliations.
populateAuthorNotesTask ==
    LET mine == {w \in flight : w.by = "fetch"}
        writes == profile.coauthors[idx].name \in existingPeople
                  => PersonPath(profile.coauthors[idx].name) \in DOMAIN files
    IN  /\ pc = "coauthors"
        /\ \/ /\ idx <= Len(profile.coauthors)
              /\ mine = {}
              /\ writes
              /\ flight' = flight \cup
                             {[by |-> "fetch", job |-> idx,
                               path |-> PersonPath(profile.coauthors[idx].name),
                               stage |-> "co"]}
              /\ hist' = [hist EXCEPT !.step = [kind |-> "issue", by |-> "fetch"]]
              /\ UNCHANGED <<mirror, files, folders, siblings, profile, citable, pc, idx, run,
                             existingPeople, organizations, affiliations, indexes, log,
                             background>>
           \/ /\ idx <= Len(profile.coauthors)
              /\ mine # {} \/ ~writes
              /\ LET coauthor == profile.coauthors[idx]
                     out == ReconcileCoauthor(files, existingPeople, coauthor)
                 IN  /\ files' = out.files
                     /\ pc' = IF out.threw THEN "threw" ELSE pc
                     /\ idx' = IF out.threw THEN idx ELSE idx + 1
                     /\ hist' = [hist EXCEPT !.step =
                                    [kind |-> "settle", by |-> "fetch",
                                     path |-> PersonPath(coauthor.name), before |-> files]]
              /\ flight' = flight \ mine
              /\ UNCHANGED <<mirror, folders, siblings, profile, citable, run, existingPeople,
                             organizations, affiliations, indexes, log, background>>
           \/ /\ idx > Len(profile.coauthors)
              /\ pc' = "affils"
              /\ idx' = 1
              /\ log' = Append(log, [what |-> "doneCoauthors", key |-> <<>>])
              /\ organizations' = Entry("affils", files, siblings, profile).organizations
              /\ affiliations' = <<>>
              /\ hist' = [hist EXCEPT !.step = [kind |-> "return", by |-> "coauthors"]]
              /\ UNCHANGED <<mirror, files, folders, siblings, profile, citable, run,
                             existingPeople, indexes, flight, background>>

\* the loop of getAffiliations, from await to await. First disjunct: the
\* indexes answer; an accepted match ends the iteration, any other answer
\* issues the create of the organization note. Second: the create settles.
getAffiliationsTask ==
    LET mine == {w \in flight : w.by = "fetch"}
    IN  /\ pc = "affils"
        /\ \/ /\ idx <= Len(DblpAffiliations(profile.notes))
              /\ mine = {}
              /\ LET org == DblpAffiliations(profile.notes)[idx]
                     keys == DOMAIN organizations
                     query == <<org, keys>>
                 IN  \E fuzzy \in FuzzyAnswers(org, keys), fuse \in FuseAnswers(org, keys) :
                        /\ query \in DOMAIN indexes =>
                              indexes[query] = [fuzzy |-> fuzzy, fuse |-> fuse]
                        /\ indexes' = (query :> [fuzzy |-> fuzzy, fuse |-> fuse]) @@ indexes
                        /\ IF Accepts(fuzzy, fuse)
                           THEN /\ affiliations' =
                                      Append(affiliations,
                                             Resolve(organizations, org, fuzzy, fuse))
                                /\ idx' = idx + 1
                                /\ flight' = flight
                           ELSE /\ flight' = flight \cup
                                       {[by |-> "fetch", job |-> idx,
                                         path |-> OrgPath(org), stage |-> "org"]}
                                /\ UNCHANGED <<affiliations, idx>>
              /\ hist' = [hist EXCEPT !.step = [kind |-> "issue", by |-> "fetch"]]
              /\ UNCHANGED <<mirror, files, folders, siblings, profile, citable, pc, run,
                             existingPeople, organizations, log, background>>
           \/ /\ \E w \in mine :
                   /\ w.stage = "org"
                   /\ files' = createFile(files, w.path, <<>>)
                   /\ affiliations' = Append(affiliations,
                                             DblpAffiliations(profile.notes)[idx])
                   /\ flight' = flight \ {w}
                   /\ hist' = [hist EXCEPT !.step = [kind |-> "settle", by |-> "fetch",
                                                     path |-> w.path, before |-> files]]
              /\ idx' = idx + 1
              /\ UNCHANGED <<mirror, folders, siblings, profile, citable, pc, run, existingPeople,
                             organizations, indexes, log, background>>

\* the end of fetch. First disjunct: vault.process on the subject note is
\* issued. Second: it settles and fetch shows its last notice.
MergePersonFileTask ==
    LET mine == {w \in flight : w.by = "fetch"}
    IN  /\ pc = "affils"
        /\ \/ /\ idx > Len(DblpAffiliations(profile.notes))
              /\ mine = {}
              /\ flight' = flight \cup
                             {[by |-> "fetch", job |-> idx, path |-> SUBJECT,
                               stage |-> "merge"]}
              /\ hist' = [hist EXCEPT !.step = [kind |-> "issue", by |-> "fetch"]]
              /\ UNCHANGED <<mirror, files, folders, siblings, profile, citable, pc, idx, run,
                             existingPeople, organizations, affiliations, indexes, log,
                             background>>
           \/ /\ \E w \in mine :
                   /\ w.stage = "merge"
                   /\ files' = [files EXCEPT ![SUBJECT] =
                                   MergeSubject(@, getLinks(profile.urls), affiliations,
                                                DateString(run))]
                   /\ flight' = flight \ {w}
                   /\ hist' = [hist EXCEPT !.step = [kind |-> "settle", by |-> "fetch",
                                                     path |-> w.path, before |-> files]]
              /\ pc' = "done"
              /\ log' = Append(log, [what |-> "doneFetching", key |-> <<>>])
              /\ UNCHANGED <<mirror, folders, siblings, profile, citable, idx, run, existingPeople,
                             organizations, affiliations, indexes, background>>

\* the runs: a profile of two papers with one plain path, a coauthor, an
\* affiliation and a link; a vault that holds the subject note, and may hold
\* a paper of another profile at the plain path of the two; a fetch that
\* awaits createPublicationMdFiles, or not
InitFlight ==
    /\ files \in {SUBJECT :> EmptyBlock,
                  (SUBJECT :> EmptyBlock)
                    @@ (PlainPath(PubA) :> PubContent(Foreign, Citation(Foreign.key)))}
    /\ folders = {}
    /\ siblings = {}
    /\ profile = [pubs |-> <<PubA, PubB>>, coauthors |-> <<Co1>>, notes |-> <<NoteMIT>>,
                  urls |-> <<OrcidUrl>>]
    /\ citable \in CitableSets(profile)
    /\ pc = "idle"
    /\ idx = 1
    /\ run = 1
    /\ existingPeople = {}
    /\ organizations = <<>>
    /\ affiliations = <<>>
    /\ indexes = <<>>
    /\ log = <<>>
    /\ flight = {}
    /\ mirror = NoRequest
    /\ background \in {[state |-> "none", at |-> 0, awaited |-> awaited] :
                          awaited \in BOOLEAN}
    /\ hist = Hist0("flight", files)

NextFlight ==
    \/ startPublications
    \/ createPublicationMdFilesTask
    \/ populateAuthorNotesTask
    \/ getAffiliationsTask
    \/ MergePersonFileTask

SpecFlight == InitFlight /\ [][NextFlight]_vars

\* the whole run over the url elements a person may have: two of orcid.org,
\* one of wikipedia.org, one of mathgenealogy.org, one of another site, and
\* one of wikipedia.org with orcid.org in its path
InitLinks ==
    LET https == <<"h", "t", "t", "p", "s", ":", "/", "/">>
        org == <<".", "o", "r", "g", "/">>
        Urls == {OrcidUrl,
                 https \o ORCID \o org \o <<"2">>,
                 https \o <<"e", "n", ".">> \o WIKIPEDIA \o org \o <<"A">>,
                 https \o MGP_ORG \o <<"/", "1">>,
                 https \o <<"x", ".", "i", "o", "/", "m", "e">>,
                 https \o WIKIPEDIA \o org \o ORCID_ORG}
    IN  /\ files = (SUBJECT :> EmptyBlock)
        /\ folders = {}
        /\ siblings = {}
        /\ \E urls \in SeqsUpTo(Urls, MaxUrls) :
              profile = [pubs |-> <<PubA>>, coauthors |-> <<Co1>>, notes |-> <<NoteMIT>>,
                         urls |-> urls]
        /\ citable \in CitableSets(profile)
        /\ pc = "idle"
        /\ idx = 1
        /\ run = 1
        /\ existingPeople = {}
        /\ organizations = <<>>
        /\ affiliations = <<>>
        /\ indexes = <<>>
        /\ log = <<>>
        /\ flight = {}
        /\ mirror = NoRequest
        /\ background = [state |-> "none", at |-> 0]
        /\ hist = Hist0("fetch", files)

SpecLinks == InitLinks /\ [][Next]_vars

-----------------------------------------------------------------------------
(* The requests to the mirrors *)

\* the loop over DBLP_BASE_URLS goes on: nothing has answered with a text and
\* a base is left
PendingAll(m) == m.at <= Len(DBLP_BASE_URLS)

Pending(m) == ~m.text /\ m.at <= Len(DBLP_BASE_URLS)

\* one request of the loop, to the base whose turn it is: requestUrl(url).text
\* throws, gives '' or gives a text; a request that throws leaves the text as
\* it was
Request(m, to, answer) ==
    [at |-> m.at + 1,
     text |-> IF answer = "throws" THEN m.text ELSE answer = "text",
     asked |-> Append(m.asked, [to |-> to, base |-> DBLP_BASE_URLS[m.at],
                                answer |-> answer])]

\* console.log(error); console.log(url)
Caught(m, route, id, ext, answer) ==
    IF answer # "throws" THEN <<>>
    ELSE LET url == DBLP_BASE_URLS[m.at] \o SLASH \o route \o SLASH \o id \o ext
         IN  << [what |-> "error", key |-> url], [what |-> "url", key |-> url] >>

\* dblpUrl.split('/pid/').at(-1)
pid == <<"1">>

\* fetch: one pass of the loop that asks for the profile
requestProfile ==
    /\ pc = "idle"
    /\ Pending(mirror)
    /\ \E answer \in {"throws", "empty", "text"} :
          /\ mirror' = Request(mirror, pid, answer)
          /\ log' = log \o Caught(mirror, DBLP_PID_ROUTE, pid,
                                  <<".", "x", "m", "l">>, answer)
    /\ UNCHANGED <<files, folders, siblings, profile, citable, pc, idx, run, existingPeople,
                   organizations, affiliations, indexes, flight, background, hist>>

\* fetch, from the end of that loop to the call of populatePublicationNotes
fetchResponded ==
    /\ pc = "idle"
    /\ ~Pending(mirror)
    /\ pc' = IF mirror.text THEN "pubs" ELSE "aborted"
    /\ log' = IF mirror.text THEN log
              ELSE Append(log, [what |-> "noResponse", key |-> <<>>])
    /\ hist' = [hist EXCEPT !.step = [kind |-> "fetch", response |-> mirror.text]]
    /\ idx' = 1
    /\ mirror' = [NoRequest EXCEPT !.asked = mirror.asked]
    /\ UNCHANGED <<files, folders, siblings, profile, citable, run, existingPeople,
                   organizations, affiliations, indexes, flight, background>>

\* createPublicationMdFiles: one pass of the loop that asks for the citation
\* of a record
requestCitation ==
    /\ pc = "pubs"
    /\ idx <= Len(Queued(profile.pubs))
    /\ Pending(mirror)
    /\ LET pub == Queued(profile.pubs)[idx]
       IN  \E answer \in {"throws", "empty", "text"} :
              /\ answer = "text" => pub.key \in citable
              /\ mirror' = Request(mirror, pub.key, answer)
              /\ log' = log \o Caught(mirror, DBLP_PUB_ROUTE, pub.key,
                                      <<".", "b", "i", "b">>, answer)
    /\ UNCHANGED <<files, folders, siblings, profile, citable, pc, idx, run, existingPeople,
                   organizations, affiliations, indexes, flight, background, hist>>

\* createPublicationMdFiles: the rest of the pass over a record, from the end
\* of that loop
createPublicationMdFilesResponded ==
    /\ pc = "pubs"
    /\ idx <= Len(Queued(profile.pubs))
    /\ ~Pending(mirror)
    /\ LET pub == Queued(profile.pubs)[idx]
           out == ReconcilePublication(files, pub, mirror.text)
       IN  /\ files' = out.files
           /\ folders' = PubFoldersAfter(folders, pub, mirror.text)
           /\ log' = log \o out.log
           /\ pc' = IF out.threw THEN "threw" ELSE pc
           /\ idx' = IF out.threw THEN idx ELSE idx + 1
           /\ hist' = [hist EXCEPT !.step = [kind |-> "pub", pub |-> pub, before |-> files]]
    /\ mirror' = [NoRequest EXCEPT !.asked = mirror.asked]
    /\ UNCHANGED <<siblings, profile, citable, run, existingPeople, organizations,
                   affiliations, indexes, flight, background>>

InitMirror ==
    /\ files = (SUBJECT :> EmptyBlock)
    /\ folders = {}
    /\ siblings = {}
    /\ \E pubs \in NoRepeat({PubA, PubB}, MaxPubs) :
          profile = [EmptyProfile EXCEPT !.pubs = pubs]
    /\ citable \in CitableSets(profile)
    /\ pc = "idle"
    /\ idx = 1
    /\ run = 1
    /\ existingPeople = {}
    /\ organizations = <<>>
    /\ affiliations = <<>>
    /\ indexes = <<>>
    /\ log = <<>>
    /\ flight = {}
    /\ mirror = NoRequest
    /\ background = [state |-> "none", at |-> 0]
    /\ hist = Hist0("fetch", files)

NextMirror ==
    \/ requestProfile
    \/ fetchResponded
    \/ requestCitation
    \/ createPublicationMdFilesResponded
    \/ PublicationsDone

SpecMirror == InitMirror /\ [][NextMirror]_vars

-----------------------------------------------------------------------------
(* Properties of the publication reconciler *)

Queue == Queued(profile.pubs)

Fetchable(pub) == pub.key \in citable

NoteOf(pub) == PubContent(pub, Citation(pub.key))

\* the metadata block of a note holds the line "key: <key>"
RecordsKey(content, key) ==
    LET info == getFrontMatterInfo(content)
    IN  /\ info.exists
        /\ \E line \in Range(Split(info.frontmatter, NL)) :
              line = <<"k", "e", "y", ":", " ">> \o key

\* records i < j of the queue are two fetchable publications with different
\* keys that go to the same plain path, i being the first that goes there
Collide(i, j) ==
    /\ i < j
    /\ Queue[i].key # Queue[j].key
    /\ PlainPath(Queue[i]) = PlainPath(Queue[j])
    /\ \A k \in 1..(i - 1) : PlainPath(Queue[k]) # PlainPath(Queue[i])
    /\ Fetchable(Queue[i]) /\ Fetchable(Queue[j])

BothPersisted(i, j) ==
    /\ PlainPath(Queue[i]) \in DOMAIN files
    /\ files[PlainPath(Queue[i])] = NoteOf(Queue[i])
    /\ AltPath(Queue[j]) \in DOMAIN files
    /\ files[AltPath(Queue[j])] = NoteOf(Queue[j])

PubsDone == hist.entry = "pubs" /\ pc = "done"

\* C2 as stated: whenever the reconciler has processed two colliding records,
\* the first is at the plain path with its own content and the second at its
\* title(key) path
C2_CollisionAnyStore ==
    PubsDone => \A i, j \in DOMAIN Queue : Collide(i, j) => BothPersisted(i, j)

\* the run found the plain path and the title(key) path of the second free
FreeBefore(i, j) ==
    /\ PlainPath(Queue[i]) \notin DOMAIN hist.start
    /\ AltPath(Queue[j]) \notin DOMAIN hist.start

\* C2, amended: the same, for a run that found the plain path and the
\* title(key) path of the second record free
C2_CollisionDisambiguated ==
    PubsDone =>
        \A i, j \in DOMAIN Queue : Collide(i, j) /\ FreeBefore(i, j) => BothPersisted(i, j)

C2_Witness ==
    /\ PubsDone
    /\ \E i, j \in DOMAIN Queue : Collide(i, j) /\ FreeBefore(i, j) /\ BothPersisted(i, j)

\* C3: a run over the profile of the run before it writes nothing: the vault
\* stays as the run found it
C3_SecondRunWritesNothing ==
    (hist.entry = "pubs" /\ run > 1 /\ hist.new = <<>> /\ ~hist.moved) => files = hist.start

C3_Witness ==
    /\ PubsDone /\ run > 1 /\ hist.new = <<>> /\ ~hist.moved
    /\ hist.prevPc = "done"
    /\ hist.prev # hist.prevEnd
    /\ \E i, j \in DOMAIN Queue : Collide(i, j)

\* C4 as stated: a step that finds at the plain path a note whose metadata
\* block records the key of its record writes nothing
C4_SameKeyIsSynced ==
    (/\ hist.entry = "pubs"
     /\ hist.step.kind = "pub"
     /\ Fetchable(hist.step.pub)
     /\ PlainPath(hist.step.pub) \in DOMAIN hist.step.before
     /\ RecordsKey(hist.step.before[PlainPath(hist.step.pub)], hist.step.pub.key))
    => files = hist.step.before

\* the run before this one returned, and this one sees its profile with one
\* new fetchable record whose key no note of the vault records
OneNewRecord ==
    /\ PubsDone /\ run > 1 /\ hist.prevPc = "done"
    /\ hist.new # <<>>
    /\ Fetchable(hist.new[1])
    /\ \A p \in DOMAIN hist.start : ~RecordsKey(hist.start[p], hist.new[1].key)

Added == DOMAIN files \ DOMAIN hist.start

OldUntouched == \A p \in DOMAIN hist.start : files[p] = hist.start[p]

\* C5 as stated: exactly one note is added, at the plain path or at the
\* title(key) path, and no other note is created or changed
C5_ExactlyOneNewNote ==
    OneNewRecord =>
        /\ Added \in {{PlainPath(hist.new[1])}, {AltPath(hist.new[1])}}
        /\ OldUntouched

\* one of the three predicates accepts the record
Classified(pub) == isInProceedings(pub) \/ isJournalArticle(pub) \/ isInformalArticle(pub)

PlainFree == Classified(hist.new[1]) /\ PlainPath(hist.new[1]) \notin DOMAIN hist.start

\* the plain path held a note with a key, which is not the key of the new
\* record, and the title(key) path was free
PlainHeldByOther ==
    /\ Classified(hist.new[1])
    /\ PlainPath(hist.new[1]) \in DOMAIN hist.start
    /\ ~FileKeyThrows(hist.start[PlainPath(hist.new[1])])
    /\ AltPath(hist.new[1]) \notin DOMAIN hist.start

\* C5, amended: at most one note is added: for a record that one of the three
\* predicates accepts, exactly the plain path when it was free and exactly the
\* title(key) path when the plain path held a note of another key and the
\* title(key) path was free; nothing else is created or changed
C5_AtMostOneNewNote ==
    OneNewRecord =>
        /\ Added \subseteq {PlainPath(hist.new[1]), AltPath(hist.new[1])}
        /\ Cardinality(Added) <= 1
        /\ PlainFree => Added = {PlainPath(hist.new[1])}
        /\ PlainHeldByOther => Added = {AltPath(hist.new[1])}
        /\ \A p \in Added : files[p] = NoteOf(hist.new[1])
        /\ OldUntouched

C5_Witness ==
    /\ OneNewRecord
    /\ PlainHeldByOther
    /\ Added = {AltPath(hist.new[1])}
    /\ Len(Queue) > 1

\* how many of the three predicates accept the record
Kinds(pub) ==
    Cardinality({k \in {"conference", "journal", "informal"} :
                    \/ k = "conference" /\ isInProceedings(pub)
                    \/ k = "journal" /\ isJournalArticle(pub)
                    \/ k = "informal" /\ isInformalArticle(pub)})

\* C16 as stated: exactly one of the three predicates accepts each record of
\* the profile, so that the loop takes every record
C16_ClassificationTotal ==
    PubsDone =>
        /\ \A k \in DOMAIN profile.pubs : Kinds(profile.pubs[k]) = 1
        /\ Len(Queue) = Len(profile.pubs)

\* the note at the plain path of pub has no block, or a block without an entry
Malformed(fs, pub) == PlainPath(pub) \in DOMAIN fs /\ FileKeyThrows(fs[PlainPath(pub)])

\* C14 as stated: a step that finds a malformed note at the record's path
\* skips that record only: the vault is as before and the loop is at the next
\* record
C14_MalformedNoteIsSkipped ==
    (/\ hist.step.kind = "pub"
     /\ Fetchable(hist.step.pub)
     /\ Malformed(hist.step.before, hist.step.pub))
    => /\ pc = "pubs"
       /\ files = hist.step.before
       /\ Queue[idx - 1] = hist.step.pub

\* C15 as stated: when the reconciler returns, every record of the profile has
\* a note that records its key or a logged failure that names it
C15_EveryRecordNotedOrLogged ==
    PubsDone =>
        \A pub \in Range(profile.pubs) :
            \/ \E p \in DOMAIN files : RecordsKey(files[p], pub.key)
            \/ \E i \in DOMAIN log : log[i].key = pub.key

-----------------------------------------------------------------------------
(* Properties of the sanitizer *)

ForbiddenChars ==
    {FORBIDDEN_CHAR_REPLACEMENT[k][1] : k \in DOMAIN FORBIDDEN_CHAR_REPLACEMENT}

\* the names, without folder and extension, of the notes the last step created
CreatedNames ==
    {SubSeq(p, Len(PubPath(hist.step.pub)) + Len(SLASH) + 1, Len(p) - Len(MD)) :
        p \in DOMAIN files \ DOMAIN hist.step.before}

\* C17 as stated: no key of FORBIDDEN_CHAR_REPLACEMENT occurs in the name
\* sanitize has made of a title
C17_NoForbiddenSurvives ==
    hist.step.kind = "pub" =>
        \A name \in CreatedNames : Range(name) \cap ForbiddenChars = {}

\* C18 as stated: sanitize leaves the name it has made of a title as it is
C18_SanitizeIdempotent ==
    hist.step.kind = "pub" =>
        \A name \in CreatedNames : sanitize(name) = name

-----------------------------------------------------------------------------
(* Properties of the coauthor reconciler *)

BlockLines(content) ==
    LET info == getFrontMatterInfo(content)
    IN  IF info.exists THEN Range(Split(info.frontmatter, NL)) ELSE {}

IdentityLines(content) ==
    {line \in BlockLines(content) : StartsWith(line, DBLP_PROPERTY \o <<":">>)}

\* the note has a metadata block, and no line of it is an identity field
LacksIdentity(content) ==
    getFrontMatterInfo(content).exists /\ IdentityLines(content) = {}

CoDone == hist.entry = "coauthors" /\ pc = "done"

FirstOfName(i) ==
    \A k \in 1..(i - 1) : profile.coauthors[k].name # profile.coauthors[i].name

\* C8 as stated: when the coauthor reconciler has run, every note of a
\* coauthor that was in People before the run with a metadata block without
\* identity field holds the field, set to the profile URL of the coauthor
C8_ExistingNoteGetsIdentity ==
    CoDone =>
        \A i \in DOMAIN profile.coauthors :
            LET co == profile.coauthors[i]
                path == PersonPath(co.name)
            IN  (/\ FirstOfName(i)
                 /\ path \in DOMAIN hist.start
                 /\ LacksIdentity(hist.start[path]))
                => DblpLine(co.pid) \in BlockLines(files[path])

\* a step of the coauthor loop that applied the upsert to an existing note
Upserted ==
    /\ hist.entry = "coauthors"
    /\ hist.step.kind = "co"
    /\ pc # "threw"
    /\ hist.step.coauthor.name \in existingPeople
    /\ PersonPath(hist.step.coauthor.name) \in DOMAIN hist.step.before

NoteBefore == hist.step.before[PersonPath(hist.step.coauthor.name)]

NoteAfter == files[PersonPath(hist.step.coauthor.name)]

\* a is b with some elements left out
RECURSIVE IsSubSeq(_, _)
IsSubSeq(a, b) ==
    IF a = <<>> THEN TRUE
    ELSE IF b = <<>> THEN FALSE
    ELSE IF Head(a) = Head(b) THEN IsSubSeq(Tail(a), Tail(b))
    ELSE IsSubSeq(a, Tail(b))

\* C9 as stated: the upsert turns a note without a metadata block into
\* sentinel, identity field, sentinel and then the note as it was, and in
\* every case the lines the note had are still there, in their order
C9_UpsertKeepsLines ==
    Upserted =>
        /\ ~hasProperties(Split(NoteBefore, NL)) =>
              NoteAfter = SENTINEL \o NL \o DblpLine(hist.step.coauthor.pid) \o NL
                          \o SENTINEL \o NL \o NoteBefore
        /\ IsSubSeq(Split(NoteBefore, NL), Split(NoteAfter, NL))

\* C10: a step of the coauthor loop over a note whose metadata block holds an
\* identity field with another value than the coauthor's leaves the note as
\* it was
C10_PresentFieldIsKept ==
    (/\ hist.entry = "coauthors"
     /\ hist.step.kind = "co"
     /\ PersonPath(hist.step.coauthor.name) \in DOMAIN hist.step.before
     /\ IdentityLines(NoteBefore) # {}
     /\ DblpLine(hist.step.coauthor.pid) \notin IdentityLines(NoteBefore))
    => NoteAfter = NoteBefore

C10_Witness ==
    /\ Upserted
    /\ IdentityLines(NoteBefore) # {}
    /\ DblpLine(hist.step.coauthor.pid) \notin IdentityLines(NoteBefore)
    /\ NoteAfter = NoteBefore

\* C22 as stated: when the coauthor reconciler has run over two records of
\* one display name and different pids, the note of that name, unless it held
\* an identity field before the run, holds exactly one identity field, the
\* one of the first of the two records
C22_FirstWriteWins ==
    CoDone =>
        \A i, j \in DOMAIN profile.coauthors :
            LET first == profile.coauthors[i]
                second == profile.coauthors[j]
                path == PersonPath(first.name)
            IN  (/\ i < j
                 /\ FirstOfName(i)
                 /\ first.name = second.name
                 /\ first.pid # second.pid
                 /\ path \in DOMAIN hist.start => IdentityLines(hist.start[path]) = {})
                => /\ path \in DOMAIN files
                   /\ IdentityLines(files[path]) = {DblpLine(first.pid)}

-----------------------------------------------------------------------------
(* Properties of the organization matcher *)

Matched == hist.entry = "affils" /\ hist.step.kind = "affil"

\* what the two indexes said, in the words of the decision rule
Agreed ==
    /\ hist.step.fuzzy.found /\ hist.step.fuse.found
    /\ hist.step.fuzzy.item = hist.step.fuse.item

WithinBounds == hist.step.fuzzy.score >= 75 /\ hist.step.fuse.score <= 33

Resolved == affiliations[Len(affiliations)]

OthersUntouched(path) ==
    /\ DOMAIN files \ {path} = DOMAIN hist.step.before \ {path}
    /\ \A p \in DOMAIN hist.step.before : files[p] = hist.step.before[p]

C7_AcceptedMatch ==
    (Matched /\ Agreed /\ WithinBounds) =>
        /\ Resolved = organizations[hist.step.fuse.item]
        /\ files = hist.step.before

C7_Witness ==
    /\ Matched /\ Agreed
    /\ hist.step.fuzzy.score = 75 /\ hist.step.fuse.score = 33
    /\ organizations[hist.step.fuse.item] # hist.step.fuse.item
    /\ Resolved = organizations[hist.step.fuse.item]
    /\ Resolved # hist.step.org
    /\ files = hist.step.before

\* the positions of the commas of text after its first from characters
CommasAfter(text, from) == {i \in DOMAIN text : i > from /\ text[i] = ","}

UC == <<"U", "n", "i", "v", "e", "r", "s", "i", "t", "y", " ", "o", "f", " ",
        "C", "a", "l", "i", "f", "o", "r", "n", "i", "a">>

\* text cut before its first comma, the one inside the prefix
\* "University of California," not counted; text itself where there is none
CutAtFirstComma(text) ==
    LET from == IF Len(text) > Len(UC) /\ SubSeq(text, 1, Len(UC) + 1) = UC \o <<",">>
                THEN Len(UC) + 1 ELSE 0
        commas == CommasAfter(text, from)
    IN  IF commas = {} THEN text
        ELSE SubSeq(text, 1, (CHOOSE i \in commas : \A j \in commas : i <= j) - 1)

Sliced == hist.entry = "affils" /\ hist.step.kind = "affil"

Berkeley == UC \o <<",", " ", "B", "e", "r", "k", "e", "l", "e", "y">>

BerkeleyCS ==
    Berkeley \o <<",", " ", "C", "o", "m", "p", "u", "t", "e", "r", " ",
                  "S", "c", "i", "e", "n", "c", "e">>

\* C19: the organization name the matcher works with is the affiliation text
\* cut before its first comma, or before the first comma after the prefix
\* "University of California," when the text begins with it, or the whole text
\* when there is no such comma; the text of BerkeleyCS gives Berkeley and
\* "MIT, CSAIL" gives "MIT"
C19_SliceAtFirstComma ==
    Sliced =>
        LET text == profile.notes[idx - 1].text
        IN  /\ hist.step.org = CutAtFirstComma(text)
            /\ text = BerkeleyCS => hist.step.org = Berkeley
            /\ text = NoteMIT.text => hist.step.org = MIT

\* the matcher has worked on the text of BerkeleyCS and registered Berkeley
C19_Witness ==
    /\ Sliced
    /\ profile.notes[idx - 1].text = BerkeleyCS
    /\ hist.step.org = Berkeley
    /\ OrgPath(Berkeley) \in DOMAIN files

-----------------------------------------------------------------------------
(* Properties of fetch *)

\* a vault without the line of the subject note that holds the time of the fetch
Unstamped(fs) ==
    [p \in DOMAIN fs |->
        IF p = SUBJECT
        THEN Join(SelectSeq(Split(fs[p], NL), LAMBDA line : ~StartsWith(line, LAST_FETCH)), NL)
        ELSE fs[p]]

\* C1 as stated: when two runs in a row over one profile have both ended, the
\* vault after the second is the vault after the first, but for the line of
\* the subject note that holds the time
C1_Idempotent ==
    (/\ hist.entry = "fetch" /\ pc = "done"
     /\ run > 1 /\ hist.prevPc = "done" /\ ~hist.moved)
    => Unstamped(files) = Unstamped(hist.prevEnd)

\* the state after the merge into the subject note
Merged == hist.entry = "fetch" /\ hist.step.kind = "merge"

\* a line the merge owns: a link line of the profile, an affiliation line, or
\* the line that holds the time of the fetch
Owned(line) ==
    \/ StartsWith(line, LAST_FETCH)
    \/ StartsWith(line, AFFILIATION)
    \/ line \in Range(getLinks(profile.urls))

OthersBefore ==
    SelectSeq(Split(hist.step.before[SUBJECT], NL), LAMBDA line : ~Owned(line))

\* C11 as stated: the merge keeps the metadata block, and the lines of the
\* note it does not own, empty ones included, are all still there after it,
\* in their order
C11_MergeKeepsOtherLines ==
    Merged =>
        /\ getFrontMatterInfo(hist.step.before[SUBJECT]).exists
              => getFrontMatterInfo(files[SUBJECT]).exists
        /\ IsSubSeq(OthersBefore, Split(files[SUBJECT], NL))

\* C12: a fetch that got no response from any mirror ends the run at once,
\* with the vault as the run found it
C12_NoResponseNoWrite ==
    (hist.entry = "fetch" /\ hist.step.kind = "fetch" /\ ~hist.step.response)
    => (pc = "aborted" /\ files = hist.start)

C12_Witness ==
    /\ hist.entry = "fetch" /\ hist.step.kind = "fetch" /\ ~hist.step.response
    /\ pc = "aborted"
    /\ profile.pubs # <<>> /\ profile.coauthors # <<>> /\ profile.notes # <<>>
    /\ files = hist.start

\* the vault after the publication reconciler has walked the records of q
RECURSIVE PubFold(_, _)
PubFold(fs, q) ==
    IF q = <<>> THEN fs
    ELSE PubFold(ReconcilePublication(fs, Head(q), TRUE).files, Tail(q))

Reported(pub) == \E i \in DOMAIN log : log[i] = [what |-> "unfetchable", key |-> pub.key]

PubStep == hist.entry = "fetch" /\ hist.step.kind = "pub"

\* C13: a record whose citation cannot be fetched is reported and leaves the
\* vault as it was, the loop goes on with the next record, and after every
\* step the vault is what the reconciler makes of the fetchable records walked
\* so far alone
C13_UnfetchableIsSkipped ==
    PubStep =>
        /\ ~Fetchable(hist.step.pub) =>
              /\ files = hist.step.before
              /\ Reported(hist.step.pub)
              /\ pc = "pubs"
              /\ Queue[idx - 1] = hist.step.pub
        /\ pc = "pubs" =>
              files = PubFold(hist.start, SelectSeq(SubSeq(Queue, 1, idx - 1), Fetchable))

\* the run has merged the subject note after a record could not be fetched:
\* the record has no note, its sibling has the plain path, the coauthors have
\* their notes
C13_Witness ==
    /\ Merged
    /\ run = 1
    /\ profile.pubs = <<PubA, PubB>>
    /\ ~Fetchable(PubA)
    /\ Reported(PubA)
    /\ files[PlainPath(PubB)] = NoteOf(PubB)
    /\ \A p \in DOMAIN files : ~RecordsKey(files[p], PubA.key)
    /\ \A c \in Range(profile.coauthors) : PersonPath(c.name) \in DOMAIN files

\* the first run over the profile of the scenario, on a vault that holds the
\* subject note with an empty block and nothing else, has ended
ScenarioDone ==
    /\ hist.entry = "fetch"
    /\ run = 1
    /\ profile = Scenario
    /\ hist.start = (SUBJECT :> EmptyBlock)
    /\ pc = "done"

FooName == <<"F", "o", "o", "U+FE55", " ", "B", "a", "r", ".", "m", "d">>

\* the note at path records the key of the paper and holds its citation
HoldsFooPaper(path) ==
    /\ path \in DOMAIN files
    /\ RecordsKey(files[path], FooPaper.key)
    /\ Includes(files[path], Citation(FooPaper.key))

\* the person note, the organization note and the lines of the subject note
ScenarioOthers ==
    LET jane == <<"P", "e", "o", "p", "l", "e", "/", "J", "a", "n", "e", " ", "D", "o", "e",
                  ".", "m", "d">>
        org == <<"O", "r", "g", "a", "n", "i", "z", "a", "t", "i", "o", "n", "s", "/">>
               \o ExampleUniversity \o <<".", "m", "d">>
        lines == Split(files[SUBJECT], NL)
    IN  /\ jane \in DOMAIN files
        /\ DblpLine(JaneDoe.pid) \in BlockLines(files[jane])
        /\ org \in DOMAIN files
        /\ org \notin DOMAIN hist.start
        /\ getFrontMatterInfo(files[SUBJECT]).exists
        /\ <<"a", "f", "f", "i", "l", "i", "a", "t", "i", "o", "n", ":", ":", " ", "[", "[">>
             \o ExampleUniversity \o <<"]", "]">> \in Range(lines)
        /\ \E line \in Range(lines) : StartsWith(line, LAST_FETCH)

\* C20 as stated: the scenario ends with the conference note at
\* Conference/ICF/2021/<sanitized title>.md, the person note with its identity
\* field, the new organization note, and the two lines in the subject note
C20_ScenarioAsStated ==
    ScenarioDone =>
        /\ HoldsFooPaper(<<"C", "o", "n", "f", "e", "r", "e", "n", "c", "e", "/",
                           "I", "C", "F", "/", "2", "0", "2", "1", "/">> \o FooName)
        /\ ScenarioOthers

\* C20: the scenario ends with the conference note at
\* Papers/Conference/ICF/2021/<sanitized title>.md, the person note with its
\* identity field, the new organization note, and the affiliation line and
\* the last-fetch line in the subject note
C20_Scenario ==
    ScenarioDone =>
        /\ HoldsFooPaper(<<"P", "a", "p", "e", "r", "s", "/", "C", "o", "n", "f", "e", "r",
                           "e", "n", "c", "e", "/", "I", "C", "F", "/", "2", "0", "2", "1",
                           "/">> \o FooName)
        /\ ScenarioOthers

\* the scenario has ended with its four notes in the vault
C20_Witness ==
    /\ ScenarioDone
    /\ Merged
    /\ Cardinality(DOMAIN files) = 4
    /\ PlainPath(FooPaper) \in DOMAIN files
    /\ ScenarioOthers

People(fs) == {p \in DOMAIN fs : StartsWith(p, PEOPLE_DIR \o SLASH)}

\* C21: no step of any run takes a note out of the vault, and the number of
\* notes of People never goes down
C21_NotesOnlyGrow ==
    [][/\ DOMAIN files \subseteq DOMAIN files'
       /\ Cardinality(People(files)) <= Cardinality(People(files'))]_vars

\* the second run has ended on a vault that holds the notes the first run
\* began with and further ones, a person note among them
C21_Witness ==
    /\ hist.entry = "fetch"
    /\ run = 2
    /\ pc = "done"
    /\ DOMAIN hist.prev \subseteq DOMAIN files
    /\ DOMAIN hist.prev # DOMAIN files
    /\ DOMAIN hist.prev # {SUBJECT}
    /\ Cardinality(People(hist.prev)) < Cardinality(People(files))

-----------------------------------------------------------------------------
(* Properties of the catalog *)

\* the names of the organization notes the run found, in the order of the
\* vault, and the positions of the notes that declare alias
Canonical == [i \in DOMAIN OrgFiles(hist.start) |-> Basename(OrgFiles(hist.start)[i])]

Declaring(alias) ==
    {i \in DOMAIN Canonical :
        alias \in Range(Aliases(hist.start[ORG_DIR \o SLASH \o OrgFiles(hist.start)[i]]))}

Last(S) == CHOOSE i \in S : \A j \in S : j <= i

Declared == UNION {Declaring(alias) : alias \in DOMAIN organizations}

\* every alias a note declares is a key of the catalog, and its name is the
\* name of the last note that declares it
AliasesLastSeenWins ==
    /\ \A i \in DOMAIN Canonical :
          Range(Aliases(hist.start[ORG_DIR \o SLASH \o OrgFiles(hist.start)[i]]))
             \subseteq DOMAIN organizations
    /\ \A alias \in DOMAIN organizations :
          Declaring(alias) # {} => organizations[alias] = Canonical[Last(Declaring(alias))]

\* C27 as stated: the catalog of a run has the name of every organization
\* note for itself, and for every alias a note declares the name of the last
\* note that declares it
C27_CatalogAsStated ==
    (hist.entry = "affils" /\ profile.notes # <<>>) =>
        /\ \A i \in DOMAIN Canonical :
              /\ Canonical[i] \in DOMAIN organizations
              /\ organizations[Canonical[i]] = Canonical[i]
        /\ AliasesLastSeenWins

\* C27: the catalog of a run has the name of every organization note that no
\* note declares as an alias for itself, and for every alias a note declares
\* the name of the last note that declares it; it has no other key
C27_Catalog ==
    (hist.entry = "affils" /\ profile.notes # <<>>) =>
        /\ \A i \in DOMAIN Canonical :
              /\ Canonical[i] \in DOMAIN organizations
              /\ Declaring(Canonical[i]) = {} => organizations[Canonical[i]] = Canonical[i]
        /\ AliasesLastSeenWins
        /\ \A key \in DOMAIN organizations :
              Declaring(key) # {} \/ key \in Range(Canonical)

C27_Witness ==
    /\ hist.entry = "affils" /\ profile.notes # <<>> /\ pc = "done"
    /\ \E alias \in DOMAIN organizations :
          /\ Cardinality(Declaring(alias)) = 2
          /\ organizations[alias] = Canonical[Last(Declaring(alias))]
          /\ alias \in Range(Canonical)
          /\ organizations[alias] # alias

\* C28: the matcher returns one name per affiliation of the profile, in the
\* order of the profile, repeated ones included, and each name is the name
\* of an organization note the run found or the affiliation itself
C28_OneNamePerAffiliation ==
    (hist.entry = "affils" /\ pc = "done") =>
        LET raw == DblpAffiliations(profile.notes)
        IN  /\ Len(affiliations) = Len(raw)
            /\ \A i \in DOMAIN raw :
                  \/ affiliations[i] = raw[i]
                  \/ /\ OrgPath(affiliations[i]) \in DOMAIN hist.start
                     /\ affiliations[i] \in Range(Canonical)

C28_Witness ==
    /\ hist.entry = "affils" /\ pc = "done"
    /\ Len(affiliations) = 2
    /\ DblpAffiliations(profile.notes)[1] = DblpAffiliations(profile.notes)[2]
    /\ affiliations[1] = affiliations[2]
    /\ affiliations[1] # DblpAffiliations(profile.notes)[1]
    /\ OrgPath(affiliations[1]) \in DOMAIN hist.start

-----------------------------------------------------------------------------
(* Properties of the subject note *)

LinesWith(note, prefix) ==
    SelectSeq(Split(note, NL), LAMBDA line : StartsWith(line, prefix))

\* C25: when a run has ended, the affiliation lines of the subject note are
\* the lines of the organizations this run resolved, one each, in their
\* order, and the note has one line with the time of the fetch, its last
C25_AffiliationsReplaced ==
    (hist.entry = "fetch" /\ pc = "done") =>
        LET lines == Split(files[SUBJECT], NL)
        IN  /\ LinesWith(files[SUBJECT], AFFILIATION)
                  = [i \in DOMAIN affiliations |-> AffiliationLine(affiliations[i])]
            /\ Len(LinesWith(files[SUBJECT], LAST_FETCH)) = 1
            /\ StartsWith(lines[Len(lines)], LAST_FETCH)

C25_Witness ==
    /\ hist.entry = "fetch" /\ pc = "done" /\ run = 2
    /\ Len(LinesWith(hist.prevEnd[SUBJECT], AFFILIATION)) = 2
    /\ Len(LinesWith(hist.prevEnd[SUBJECT], LAST_FETCH)) = 1
    /\ Len(affiliations) = 2
    /\ affiliations[1] # affiliations[2]

\* the links of the profile the note before the merge does not hold
NewLinks ==
    SelectSeq(getLinks(profile.urls),
              LAMBDA link : ~Includes(hist.step.before[SUBJECT], link))

\* the merge has put the new links right after the opening line of the block,
\* and no link the note held already a second time
LinksAfterSentinel ==
    LET after == Split(files[SUBJECT], NL)
    IN  /\ NewLinks # <<>> =>
              /\ after[1] = SENTINEL
              /\ Len(after) > Len(NewLinks)
              /\ SubSeq(after, 2, Len(NewLinks) + 1) = NewLinks
              /\ getFrontMatterInfo(files[SUBJECT]).exists
              /\ \A i \in DOMAIN NewLinks :
                    Includes(getFrontMatterInfo(files[SUBJECT]).frontmatter, NewLinks[i])
        /\ \A link \in Range(getLinks(profile.urls)) :
              Includes(hist.step.before[SUBJECT], link)
              => Len(SelectSeq(after, LAMBDA line : line = link))
                   = Len(SelectSeq(Split(hist.step.before[SUBJECT], NL),
                                   LAMBDA line : line = link))

\* the part of C26 about a subject note that has a metadata block
BlockLinksAfterSentinel ==
    (Merged /\ getFrontMatterInfo(hist.step.before[SUBJECT]).exists) => LinksAfterSentinel

\* C26: the merge puts every link of the profile the note does not hold yet
\* right after the opening line of the metadata block, inside the block, and
\* never a link the note holds already
C26_LinksAfterSentinel == Merged => LinksAfterSentinel

\* a second run finds the link of the first in the block and adds none
LinkFoundAgain ==
    /\ Merged /\ run = 2
    /\ getLinks(profile.urls) # <<>> /\ NewLinks = <<>>
    /\ getFrontMatterInfo(hist.step.before[SUBJECT]).exists

\* the keys of links with the domains processURL asks for, in its order
Domains ==
    << [key |-> ORCID, domain |-> ORCID_ORG],
       [key |-> WIKIPEDIA, domain |-> WIKIPEDIA_ORG],
       [key |-> MGP, domain |-> MGP_ORG] >>

\* the urls that hold the domain, and the ones among them that hold no domain
\* processURL asks for earlier
Holding(k) == SelectSeq(profile.urls, LAMBDA url : Includes(url, Domains[k].domain))

Taken(k) ==
    SelectSeq(Holding(k),
              LAMBDA url : \A e \in 1..(k - 1) : ~Includes(url, Domains[e].domain))

\* when the run began the subject note held no link but those of the urls of
\* the profile
NoOtherLinks ==
    \A k \in DOMAIN Domains :
        Range(LinesWith(hist.start[SUBJECT], Domains[k].key \o <<":", " ">>))
            \subseteq Range(getLinks(profile.urls))

\* the link lines of a key in the subject note are the line of the last of urls
LinkIsLastOf(k, urls) ==
    LinesWith(files[SUBJECT], Domains[k].key \o <<":", " ">>)
      = IF urls = <<>> THEN <<>>
        ELSE << Domains[k].key \o <<":", " ">> \o urls[Len(urls)] >>

\* C30 as stated: after the merge the subject note has, for each of the three
\* domains, the link of the last url of the profile that holds the domain and
\* no other link of that key (the subject note held no link of other urls
\* when the run began)
C30_LastOfDomainAsStated ==
    (Merged /\ NoOtherLinks) => \A k \in DOMAIN Domains : LinkIsLastOf(k, Holding(k))

\* C30: after the merge the subject note has, for each of the three domains,
\* the link of the last url of the profile that holds the domain and none of
\* the domains asked for before it, and no other link of that key; a url that
\* holds none of the domains gives no line (the subject note held no link of
\* other urls when the run began)
C30_LastOfDomain ==
    (Merged /\ NoOtherLinks) =>
        /\ \A k \in DOMAIN Domains : LinkIsLastOf(k, Taken(k))
        /\ \A i \in DOMAIN profile.urls :
              (\A k \in DOMAIN Domains : ~Includes(profile.urls[i], Domains[k].domain))
              => ~Includes(files[SUBJECT], profile.urls[i])

C30_Witness ==
    /\ Merged
    /\ Len(Taken(1)) = 2 /\ Taken(1)[1] # Taken(1)[2]
    /\ Includes(files[SUBJECT], ORCID \o <<":", " ">> \o Taken(1)[2])
    /\ ~Includes(files[SUBJECT], Taken(1)[1])

-----------------------------------------------------------------------------
(* Further properties of the field editor *)

\* the lines of the note after its metadata block
BodyLines(content) ==
    LET lines == Split(content, NL)
        close == CHOOSE i \in 2..Len(lines) :
                    lines[i] = SENTINEL /\ \A k \in 2..(i - 1) : lines[k] # SENTINEL
    IN  SubSeq(lines, close + 1, Len(lines))

\* C33: the upsert on a note whose metadata block has no line that starts
\* with the name of the field and a colon puts the field right after the
\* opening sentinel and leaves the other lines as they were, in their order,
\* whatever the lines after the block start with
C33_AbsentFieldIsInserted ==
    (Upserted /\ LacksIdentity(NoteBefore)) =>
        Split(NoteAfter, NL)
          = <<SENTINEL, DblpLine(hist.step.coauthor.pid)>> \o Tail(Split(NoteBefore, NL))

C33_Witness ==
    /\ Upserted /\ LacksIdentity(NoteBefore)
    /\ \E i \in DOMAIN BodyLines(NoteBefore) :
          StartsWith(BodyLines(NoteBefore)[i], DBLP_PROPERTY \o <<":">>)
    /\ Split(NoteAfter, NL)[2] = DblpLine(hist.step.coauthor.pid)
    /\ Len(Split(NoteAfter, NL)) = Len(Split(NoteBefore, NL)) + 1

-----------------------------------------------------------------------------
(* Further properties of the publication reconciler *)

\* the step was on a fetchable record that found its plain path held by a
\* note with another key and its title(key) path held as well
BothHeld ==
    /\ hist.entry = "pubs" /\ hist.step.kind = "pub"
    /\ Fetchable(hist.step.pub)
    /\ PlainPath(hist.step.pub) \in DOMAIN hist.step.before
    /\ ~FileKeyThrows(hist.step.before[PlainPath(hist.step.pub)])
    /\ FileKey(hist.step.before[PlainPath(hist.step.pub)]) # Trim(hist.step.pub.key)
    /\ AltPath(hist.step.pub) \in DOMAIN hist.step.before

FailuresOf(pub) ==
    SelectSeq(log, LAMBDA e : e = [what |-> "failedBoth", key |-> pub.key])

\* the step reported the record once, wrote nothing and went on
ReportedAndSkipped ==
    /\ Len(FailuresOf(hist.step.pub)) = 1
    /\ files = hist.step.before
    /\ pc \in {"pubs", "done"}
    /\ Queue[idx - 1] = hist.step.pub

Unsynced(pub) == \A p \in DOMAIN files : ~RecordsKey(files[p], Trim(pub.key))

\* the part of C31 that does not say the record is left unsynced
BothHeldIsReported == BothHeld => ReportedAndSkipped

\* C31: a record that finds its plain path held by a note of another key and
\* its title(key) path held as well is reported once, is left without a note,
\* changes no note, and the loop goes on with the next record
C31_BothHeldIsUnsynced == BothHeld => ReportedAndSkipped /\ Unsynced(hist.step.pub)

\* a second run reports a record whose note the first run wrote at the
\* title(key) path
ReportedThoughSynced ==
    /\ BothHeld /\ run = 2 /\ ReportedAndSkipped
    /\ AltPath(hist.step.pub) \notin DOMAIN hist.prev
    /\ files[AltPath(hist.step.pub)] = NoteOf(hist.step.pub)

\* the folder of a path: the path up to its last separator
Dir(path) ==
    LET cuts == {i \in DOMAIN path : path[i] = "/"}
    IN  SubSeq(path, 1, (CHOOSE i \in cuts : \A k \in cuts : k <= i) - 1)

\* the folders of a record below the root of its kind, outermost first
Layout(pub) ==
    IF pub.hasBooktitle /\ ~pub.hasPubltype
    THEN LET acronym == [k \in 1..Cardinality({i \in DOMAIN pub.booktitle :
                                                 pub.booktitle[i] \in UpperCase}) |->
                           pub.booktitle[Nth({i \in DOMAIN pub.booktitle :
                                                 pub.booktitle[i] \in UpperCase}, k)]]
         IN  << <<"P", "a", "p", "e", "r", "s", "/", "C", "o", "n", "f", "e", "r", "e", "n",
                  "c", "e", "/">> \o acronym,
                <<"P", "a", "p", "e", "r", "s", "/", "C", "o", "n", "f", "e", "r", "e", "n",
                  "c", "e", "/">> \o acronym \o <<"/">> \o pub.year >>
    ELSE IF pub.hasJournal /\ ~pub.hasPubltype
    THEN << <<"P", "a", "p", "e", "r", "s", "/", "J", "o", "u", "r", "n", "a", "l", "/">>
              \o pub.journal,
            <<"P", "a", "p", "e", "r", "s", "/", "J", "o", "u", "r", "n", "a", "l", "/">>
              \o pub.journal \o <<"/">> \o pub.year >>
    ELSE << <<"P", "a", "p", "e", "r", "s", "/", "I", "n", "f", "o", "r", "m", "a", "l",
              "/">> \o pub.year >>

\* the step has created a note
NoteCreated ==
    /\ hist.entry = "pubs" /\ hist.step.kind = "pub"
    /\ DOMAIN files # DOMAIN hist.step.before

\* C32: a note is created in the folder of the kind of its record: for a
\* conference paper the root, the upper-case letters of the venue and the
\* year, for a journal article the root, the journal and the year, for an
\* informal one the root and the year; and the folders below the root are
\* there when it is created
C32_FolderByKind ==
    NoteCreated =>
        LET pub == hist.step.pub
            layout == Layout(pub)
        IN  /\ \A p \in DOMAIN files \ DOMAIN hist.step.before :
                  Dir(p) = layout[Len(layout)]
            /\ Range(layout) \subseteq folders

C32_Witness ==
    /\ PubsDone /\ run = 1
    /\ Len(Queue) = 2
    /\ Layout(Queue[1]) # Layout(Queue[2])
    /\ Len(Layout(Queue[1])) # Len(Layout(Queue[2]))
    /\ \A k \in 1..2 :
          /\ PlainPath(Queue[k]) \in DOMAIN files \ DOMAIN hist.start
          /\ Range(Layout(Queue[k])) \subseteq folders

\* the notes of the vault whose metadata block records the key
NotesOf(key) == {p \in DOMAIN files : RecordsKey(files[p], Trim(key))}

\* this run, or the one before it, started from a vault without notes
FromEmpty == hist.start = <<>> \/ hist.prev = <<>>

\* C34: in runs of the publication reconciler that started from a vault
\* without publication notes, no key is recorded by two notes, whatever the
\* order of the records in each run and whenever a record first appears
C34_OneNotePerKey ==
    (hist.entry = "pubs" /\ FromEmpty) =>
        \A pub \in PubRecords : Cardinality(NotesOf(pub.key)) <= 1

\* the second run has met, first in its list, a record the first run did not
\* see, which goes to the plain path the first run gave to another record
C34_Witness ==
    /\ PubsDone /\ run = 2 /\ hist.prev = <<>> /\ hist.prevPc = "done"
    /\ hist.new # <<>> /\ Queue # <<>> /\ Queue[1] = hist.new[1]
    /\ \E j \in DOMAIN Queue : Collide(1, j)
                               /\ NotesOf(Queue[j].key) = {PlainPath(Queue[j])}
    /\ NotesOf(hist.new[1].key) = {AltPath(hist.new[1])}

\* the second run has walked the colliding records of the first in the
\* opposite order
WalkedBackwards ==
    /\ PubsDone /\ run = 2 /\ hist.prev = <<>> /\ hist.prevPc = "done"
    /\ hist.moved /\ Len(Queue) = 2
    /\ Collide(1, 2)
    /\ NotesOf(Queue[1].key) = {AltPath(Queue[1])}
    /\ NotesOf(Queue[2].key) = {PlainPath(Queue[2])}

LinksOf(k) == LinesWith(files[SUBJECT], Domains[k].key \o <<":", " ">>)

\* the part of C36 about runs over a note with no link of other urls
SameProfileOneLinkPerKey ==
    (hist.entry = "fetch" /\ pc = "done" /\ NoOtherLinks) =>
        \A k \in DOMAIN Domains : Len(LinksOf(k)) <= 1

\* C36: after every run the subject note has at most one link line of each
\* of the three keys, also when the urls of the profile are not the ones of
\* the run before
C36_OneLinkPerKey ==
    (hist.entry = "fetch" /\ pc = "done") =>
        \A k \in DOMAIN Domains : Len(LinksOf(k)) <= 1

\* the second run has put the new address of a key next to the old one
TwoLinksOfOneKey ==
    /\ hist.entry = "fetch" /\ pc = "done" /\ run = 2 /\ hist.moved
    /\ \E k \in DOMAIN Domains :
          /\ Len(LinksOf(k)) = 2
          /\ LinksOf(k)[1] = LinksOf(k)[2] \o <<"0">>

-----------------------------------------------------------------------------
(* Frame *)

\* the notes below Papers and below Organizations
Kept(fs) ==
    {p \in DOMAIN fs : \/ StartsWith(p, <<"P", "a", "p", "e", "r", "s", "/">>)
                       \/ StartsWith(p, ORG_DIR \o SLASH)}

\* C35: no step of a run changes or removes a publication note or an
\* organization note the vault holds
C35_ExistingNotesKept ==
    [][\A p \in Kept(files) : p \in DOMAIN files' /\ files'[p] = files[p]]_vars

\* a second run over two colliding records and an affiliation has ended with
\* the notes of the first as they were
C35_Witness ==
    /\ hist.entry = "fetch" /\ pc = "done" /\ run = 2
    /\ Cardinality(Kept(hist.start)) >= 3
    /\ \E i, j \in DOMAIN Queue : Collide(i, j) /\ BothPersisted(i, j)
    /\ \E p \in Kept(hist.start) : StartsWith(p, ORG_DIR \o SLASH) /\ files[p] # <<>>
    /\ \A p \in Kept(hist.start) : files[p] = hist.start[p]

\* the name between the brackets of an affiliation line
Named(line) == SubSeq(line, Len(AFFILIATION) + 4, Len(line) - 2)

\* the names the affiliation lines of the subject note link to
Linked == {Named(line) : line \in Range(LinesWith(files[SUBJECT], AFFILIATION))}

\* every name the affiliation loop has answered with has its note
ResolvedHaveNotes ==
    (hist.entry = "affils" /\ pc \in {"affils", "done"}) =>
        \A i \in DOMAIN affiliations : OrgPath(affiliations[i]) \in DOMAIN files

-----------------------------------------------------------------------------
(* Properties of the run with its writes in flight *)

\* C23: no two writes in flight have the same path, whether or not fetch
\* awaits createPublicationMdFiles
C23_OneWritePerPath ==
    \A w, v \in flight : w.path = v.path => w = v

\* createPublicationMdFiles, not awaited, has the create of the second of two
\* papers with one plain path in flight, on the alternate path, while fetch has
\* a write of its own in flight
C23_Witness ==
    /\ ~background.awaited
    /\ PlainPath(PubA) = PlainPath(PubB)
    /\ \E w, v \in flight :
          /\ w.by = "pubs" /\ w.stage = "alt" /\ w.job = 2
          /\ v.by = "fetch"
          /\ w.path # v.path

\* createPublicationMdFiles is through every record of its queue
PublicationsThrough ==
    /\ background.state \in {"running", "returned"}
    /\ background.at > Len(IF background.awaited THEN Queued(profile.pubs)
                           ELSE profile.pubs)
    /\ {w \in flight : w.by = "pubs"} = {}

\* the part of C24 about a fetch that awaits createPublicationMdFiles
AwaitedSubjectEditIsLast ==
    background.awaited =>
       /\ (\E i \in DOMAIN log : log[i].what = "donePublications") => PublicationsThrough
       /\ pc = "done" => PublicationsThrough
       /\ (SUBJECT \in DOMAIN hist.start /\ files[SUBJECT] # hist.start[SUBJECT])
             => pc = "done"

\* C24: the notice that the publication notes are done is shown only when
\* createPublicationMdFiles is through every record, and the subject note is
\* edited only then, as the last write of the run, whether or not fetch
\* awaits createPublicationMdFiles
C24_SubjectEditIsLast ==
    /\ (\E i \in DOMAIN log : log[i].what = "donePublications") => PublicationsThrough
    /\ pc = "done" => PublicationsThrough /\ flight = {}
    /\ (SUBJECT \in DOMAIN hist.start /\ files[SUBJECT] # hist.start[SUBJECT])
          => pc = "done"

\* the subject note is merged while a create of a publication note is in flight
MergedBesidePublications ==
    /\ ~background.awaited
    /\ pc = "done"
    /\ \E w \in flight : w.by = "pubs"

-----------------------------------------------------------------------------
(* Properties of the requests to the mirrors *)

\* the requests of the run made for the profile or for a record, in order
AskedFor(to) == SelectSeq(mirror.asked, LAMBDA r : r.to = to)

\* the requests for one target go to the bases in their order, one each
InOrder(reqs) ==
    /\ Len(reqs) <= Len(DBLP_BASE_URLS)
    /\ \A i \in DOMAIN reqs : reqs[i].base = DBLP_BASE_URLS[i]

\* no request follows one that gave a text
LastAnswers(reqs) == \A i \in DOMAIN reqs : reqs[i].answer = "text" => i = Len(reqs)

\* every base was asked and none gave a text
AllFailed(reqs) ==
    /\ Len(reqs) = Len(DBLP_BASE_URLS)
    /\ \A i \in DOMAIN reqs : reqs[i].answer # "text"

Skipped == {e.key : e \in {x \in Range(log) : x.what = "unfetchable"}}

\* C38: for the profile and for every record the bases are asked in their
\* order, at most once each, and none after the first that gives a text; the
\* run is given up, and a record is left out, only when every base has thrown
\* or given no text
C38_MirrorsInOrder ==
    /\ \A to \in {r.to : r \in Range(mirror.asked)} :
          InOrder(AskedFor(to)) /\ LastAnswers(AskedFor(to))
    /\ pc = "aborted" => AllFailed(AskedFor(pid))
    /\ pc \in {"pubs", "coauthors", "threw"} =>
          AskedFor(pid)[Len(AskedFor(pid))].answer = "text"
    /\ \A key \in Skipped : AllFailed(AskedFor(key))

\* the third base gave the profile after one had thrown and one had given no
\* text; one record was left out after three requests and another was given
\* by the first base
C38_Witness ==
    /\ pc = "coauthors"
    /\ Len(AskedFor(pid)) = 3
    /\ [i \in 1..3 |-> AskedFor(pid)[i].answer] = <<"throws", "empty", "text">>
    /\ \E key \in Skipped : Len(AskedFor(key)) = 3
    /\ \E pub \in Range(profile.pubs) :
          /\ Len(AskedFor(pub.key)) = 1
          /\ \E p \in DOMAIN files : Includes(files[p], pub.key)

====
